---- MODULE Spec2Model ----
(***************************************************************************)
(* A model of oxy-script: the bytecode VM core (src/vm), the code          *)
(* generator (src/codegen) and the engine facade (src/engine).             *)
(*                                                                         *)
(* All machine words are kept as little-endian byte sequences, exactly as  *)
(* bincode lays them out, so that 64-bit wrap-around, the three address    *)
(* tag bits and partial register writes behave as in the build.            *)
(***************************************************************************)
EXTENDS Integers, Sequences, FiniteSets, TLC

\* ------------------------------------------------------------------------
\* Bytes and little-endian words (bincode's fixed-width integer encoding)
\* ------------------------------------------------------------------------

Zeros(n) == [i \in 1..n |-> 0]

\* serialize(): the n low bytes of v, least significant first (two's
\* complement for a negative v).
\* Every value of the model is within 32 bits, so the bytes above the
\* fourth are the sign extension.
LeBytes(v, n) ==
    [i \in 1..n |-> IF i <= 4 THEN (v \div 256 ^ (i - 1)) % 256
                    ELSE IF v < 0 THEN 255 ELSE 0]

RECURSIVE LeNat(_)
LeNat(bs) ==
    IF bs = <<>> THEN 0 ELSE Head(bs) + 256 * LeNat(Tail(bs))

\* Stands for every usize too large to index any buffer of the model.
HugeIndex == 1073741824

\* A u64 read as an index: its value when it is below 2^24, else HugeIndex.
ToIndex(bs) ==
    IF \A i \in 4..Len(bs) : bs[i] = 0 THEN LeNat(SubSeq(bs, 1, 3))
    ELSE HugeIndex

\* deserialize::<i16>()
ToI16(bs) ==
    LET u == LeNat(bs) IN IF u >= 32768 THEN u - 65536 ELSE u

\* a + b + carry over n-byte words: [v |-> the wrapped sum, ovf |-> carry out]
RECURSIVE AddCarry(_, _, _)
AddCarry(a, b, carry) ==
    IF a = <<>> THEN [v |-> <<>>, ovf |-> carry > 0]
    ELSE LET s == Head(a) + Head(b) + carry
             r == AddCarry(Tail(a), Tail(b), s \div 256)
         IN  [v |-> <<s % 256>> \o r.v, ovf |-> r.ovf]

Add64(a, b) == AddCarry(a, b, 0)

\* a - b over n-byte words: a + ~b + 1; ovf is the borrow.
Sub64(a, b) ==
    LET r == AddCarry(a, [i \in 1..Len(b) |-> 255 - b[i]], 1)
    IN  [v |-> r.v, ovf |-> ~r.ovf]

\* a * d for one byte d, truncated to Len(a) bytes.
RECURSIVE MulDigit(_, _, _)
MulDigit(a, d, carry) ==
    IF a = <<>> THEN [v |-> <<>>, ovf |-> carry > 0]
    ELSE LET s == Head(a) * d + carry
             r == MulDigit(Tail(a), d, s \div 256)
         IN  [v |-> <<s % 256>> \o r.v, ovf |-> r.ovf]

\* a shifted up by k bytes, truncated to Len(a) bytes.
ShiftUp(a, k) ==
    [v |-> SubSeq(Zeros(k) \o a, 1, Len(a)),
     ovf |-> \E i \in (Len(a) - k + 1)..Len(a) : a[i] # 0]

RECURSIVE MulFrom(_, _, _)
MulFrom(a, b, k) ==
    IF k > Len(b) THEN [v |-> Zeros(Len(a)), ovf |-> FALSE]
    ELSE LET d == MulDigit(a, b[k], 0)
             s == ShiftUp(d.v, k - 1)
             r == MulFrom(a, b, k + 1)
             t == Add64(s.v, r.v)
         IN  [v |-> t.v,
              ovf |-> (b[k] # 0 /\ (d.ovf \/ s.ovf)) \/ r.ovf \/ t.ovf]

Mul64(a, b) == MulFrom(a, b, 1)

\* Signed comparison of two i64 words.
IsNeg(bs) == bs[Len(bs)] >= 128

RECURSIVE LessUnsigned(_, _, _)
LessUnsigned(a, b, i) ==
    IF i = 0 THEN FALSE
    ELSE IF a[i] # b[i] THEN a[i] < b[i]
    ELSE LessUnsigned(a, b, i - 1)

LessI64(a, b) ==
    IF IsNeg(a) # IsNeg(b) THEN IsNeg(a) ELSE LessUnsigned(a, b, Len(a))

BoolByte(b) == IF b THEN 1 ELSE 0

\* ------------------------------------------------------------------------
\* vm/address.rs
\* ------------------------------------------------------------------------

ProgramTag == 0
StackTag == 1
HeapTag == 2
SwapTag == 3
ForeignTag == 4

\* u64::from(AddressType) << 61, as a word.
TagWord(tag) == <<0, 0, 0, 0, 0, 0, 0, tag * 32>>

\* Address::new: raw_address = real_address + (type << 61).
AddressNew(real, tag) ==
    LET raw == Add64(real, TagWord(tag))
    IN  [real_address |-> real, raw_address |-> raw.v,
         address_type |-> tag, panic |-> FALSE, ovf |-> raw.ovf]

\* From<u64>: the tag is raw >> 61 (a tag above 4 panics), the real address
\* is (raw << 3) >> 3.
AddressFrom(raw) ==
    [real_address |-> [raw EXCEPT ![8] = @ % 32], raw_address |-> raw,
     address_type |-> raw[8] \div 32, panic |-> raw[8] \div 32 > 4,
     ovf |-> FALSE]

\* real_address -= |offset| or real_address += offset, in u64 arithmetic.
\* i16::MIN.abs() overflows: a panic under overflow checks, else it stays
\* -32768, which `as u64` extends to 2^64 - 32768, and subtracting that
\* wraps to adding 32768.
OffsetWord(real, offset) ==
    IF offset = -32768
    THEN [v |-> Add64(real, LeBytes(32768, 8)).v, ovf |-> TRUE]
    ELSE IF offset < 0 THEN Sub64(real, LeBytes(-offset, 8))
    ELSE Add64(real, LeBytes(offset, 8))

WithReal(addr, r) ==
    [addr EXCEPT !.real_address = r.v, !.ovf = addr.ovf \/ r.ovf]

\* with_offset: only real_address moves; raw_address and address_type stay.
with_offset(addr, offset) ==
    WithReal(addr, OffsetWord(addr.real_address, offset))

\* ------------------------------------------------------------------------
\* vm/core.rs: the Core as a record, and its helpers as operators on it.
\*   err      "none", a CoreError, or "Panic" (a Rust panic: an index out
\*            of bounds, an arithmetic overflow under overflow checks)
\*   checks   whether the build carries overflow checks (debug) or wraps
\*   brk      the run loop was left by RET with an empty call stack
\*   ub       what an invalid bool bit pattern reads as
\* ------------------------------------------------------------------------

SWAP_SPACE_SIZE == 64

Fail(c, e) == IF c.err = "none" THEN [c EXCEPT !.err = e] ELSE c

Overlay(old, new) == new \o SubSeq(old, Len(new) + 1, Len(old))

\* reg(): 16 is SP, 17 is IP, below 16 a general register.
ValidReg(r) == r <= 17

reg(c, r) ==
    IF r = 16 THEN c.sp
    ELSE IF r = 17 THEN LeBytes(c.ip, 8)
    ELSE c.registers[r]

\* Register::set::<T>: a union write of size_of::<T>() low bytes.
SetReg(c, r, new) ==
    IF r = 16 THEN [c EXCEPT !.sp = Overlay(@, new)]
    ELSE IF r = 17 THEN [c EXCEPT !.ip = ToIndex(Overlay(LeBytes(@, 8), new))]
    ELSE IF r < 16 THEN [c EXCEPT !.registers[r] = Overlay(@, new)]
    ELSE Fail(c, "InvalidRegister")

\* The result x of an arithmetic instruction written to register t: a panic
\* under overflow checks, else the (possibly wrapped) word.
SetChecked(c, t, x) ==
    IF x.ovf /\ c.checks THEN Fail(c, "Panic")
    ELSE SetReg(c, t, x.v)

\* Register::get::<bool>
BoolOf(c, byte) == IF byte \in {0, 1} THEN byte = 1 ELSE c.ub

RegBool(c, r) == BoolOf(c, reg(c, r)[1])

Segment(c, tag) ==
    IF tag = StackTag THEN c.stack
    ELSE IF tag = SwapTag THEN c.swap
    ELSE c.program.code

\* The status of an access of n bytes at the address a in one of the
\* segments `tags`: early is a panic in Address::from or with_offset, st
\* the outcome of the match on the address type and of the indexing.
ResolveAt(c, a, n, tags) ==
    [early |-> a.panic \/ (a.ovf /\ c.checks),
     st |-> IF a.panic \/ (a.ovf /\ c.checks) THEN "Panic"
            ELSE IF a.address_type \notin tags THEN "Unknown"
            ELSE IF a.address_type = ProgramTag /\ ~c.program.some
                 THEN "Unknown"
            ELSE IF n > 0 /\ ToIndex(a.real_address) + n
                                > Len(Segment(c, a.address_type))
                 THEN "Panic"
            ELSE "none",
     tag |-> a.address_type,
     at |-> ToIndex(a.real_address)]

Resolve(c, raw, offset, n, tags) ==
    ResolveAt(c, with_offset(AddressFrom(raw), offset), n, tags)

ReadTags == {StackTag, ProgramTag, SwapTag}

Loaded(c, r, n) ==
    [early |-> r.early, st |-> r.st,
     v |-> IF r.st = "none"
           THEN SubSeq(Segment(c, r.tag), r.at + 1, r.at + n) ELSE <<>>]

\* mem_get_n
mem_get_n(c, raw, offset, n) ==
    Loaded(c, Resolve(c, raw, offset, n, ReadTags), n)

WriteAt(seg, at, bytes) ==
    [i \in 1..Len(seg) |->
        IF i > at /\ i <= at + Len(bytes) THEN bytes[i - at] ELSE seg[i]]

Store(c, r, bytes) ==
    IF r.st # "none" THEN Fail(c, r.st)
    ELSE IF r.tag = StackTag THEN [c EXCEPT !.stack = WriteAt(@, r.at, bytes)]
    ELSE IF r.tag = SwapTag THEN [c EXCEPT !.swap = WriteAt(@, r.at, bytes)]
    ELSE [c EXCEPT !.program.code = WriteAt(@, r.at, bytes)]

\* mem_set: the stack and the program image only.
mem_set(c, raw, offset, bytes) ==
    Store(c, Resolve(c, raw, offset, Len(bytes), {StackTag, ProgramTag}),
          bytes)

\* mem_mov_n: both addresses are formed, the source is read whole, then the
\* target is written.
MoveLoaded(c, src, dst) ==
    IF src.early \/ dst.early THEN Fail(c, "Panic")
    ELSE IF src.st # "none" THEN Fail(c, src.st)
    ELSE Store(c, dst, src.v)

mem_mov_n(c, lraw, loff, rraw, roff, n) ==
    MoveLoaded(c, mem_get_n(c, lraw, loff, n),
               Resolve(c, rraw, roff, n, ReadTags))

\* ret(): the most recent return address is popped into ip.
ret(c) ==
    IF c.call_stack = <<>> THEN Fail(c, "EmptyCallStack")
    ELSE [c EXCEPT !.ip = Head(c.call_stack),
                   !.call_stack = Tail(c.call_stack)]

\* ------------------------------------------------------------------------
\* vm/is.rs: the opcode of byte b is OpcodeNames[b + 1]; byte 3 and every
\* byte above 70 is no opcode.
\* ------------------------------------------------------------------------

OpcodeNames ==
    << "NOOP", "HALT", "MOVB", "INVALID", "MOVF", "MOVI", "MOVA",
       "MOVB_A", "MOVF_A", "MOVI_A", "MOVA_A", "MOVN_A",
       "MOVB_AR", "MOVF_AR", "MOVI_AR", "MOVA_AR",
       "MOVB_RA", "MOVF_RA", "MOVI_RA", "MOVA_RA",
       "LDB", "LDF", "LDI", "LDA",
       "ADDI", "SUBI", "MULI", "DIVI", "ADDI_I", "SUBI_I", "MULI_I", "DIVI_I",
       "ADDU", "SUBU", "MULU", "DIVU", "ADDU_I", "SUBU_I", "MULU_I", "DIVU_I",
       "ADDF", "SUBF", "MULF", "DIVF", "ADDF_I", "SUBF_I", "MULF_I", "DIVF_I",
       "JMP", "JMPT", "JMPF", "DJMP", "DJMPT", "DJMPF", "CALL", "RET",
       "NOT", "AND", "OR",
       "EQI", "NEQI", "LTI", "GTI", "LTEQI", "GTEQI",
       "EQF", "NEQF", "LTF", "GTF", "LTEQF", "GTEQF" >>

\* Into<u8> for Opcode
OpcodeByte(name) ==
    (CHOOSE i \in 1..Len(OpcodeNames) : OpcodeNames[i] = name) - 1

\* TryFrom<u8> for Opcode
OpcodeOf(byte) ==
    IF byte + 1 <= Len(OpcodeNames) THEN OpcodeNames[byte + 1] ELSE "INVALID"

RegMoves == {"MOVB", "MOVF", "MOVI", "MOVA"}
MemMoves == {"MOVB_A", "MOVF_A", "MOVI_A", "MOVA_A"}
MemLoads == {"MOVB_AR", "MOVF_AR", "MOVI_AR", "MOVA_AR"}
MemStores == {"MOVB_RA", "MOVF_RA", "MOVI_RA", "MOVA_RA"}
Immediates == {"LDB", "LDF", "LDI", "LDA"}
IntArith == {"ADDI", "SUBI", "ADDU", "SUBU", "MULU"}
IntArithImm == {"ADDI_I", "SUBI_I", "ADDU_I", "SUBU_I", "MULU_I"}
Compares == {"EQI", "NEQI", "LTI", "GTI", "LTEQI", "GTEQI"}

\* The operand widths of each arm of run_at's match, in get_op order.
OperandWidths(op) ==
    CASE op \in {"NOOP", "RET", "INVALID"} -> <<>>
      [] op \in {"HALT", "DJMP"} -> <<1>>
      [] op \in RegMoves \cup {"LDB", "DJMPT", "DJMPF", "NOT"} -> <<1, 1>>
      [] op \in MemMoves -> <<1, 2, 1, 2>>
      [] op = "MOVN_A" -> <<1, 2, 1, 2, 4>>
      [] op \in MemLoads -> <<1, 2, 1>>
      [] op \in MemStores -> <<1, 1, 2>>
      [] op = "LDF" -> <<4, 1>>
      [] op \in {"LDI", "LDA"} -> <<8, 1>>
      [] op \in IntArithImm \cup {"MULI_I", "DIVI_I", "DIVU_I"} -> <<1, 8, 1>>
      [] op \in {"ADDF_I", "SUBF_I", "MULF_I", "DIVF_I"} -> <<1, 4, 1>>
      [] op \in {"JMP", "CALL"} -> <<8>>
      [] op \in {"JMPT", "JMPF"} -> <<1, 8>>
      [] OTHER -> <<1, 1, 1>>

\* The width of the value an instruction moves: size_of bool, f32, i64/u64.
MoveWidth(op) ==
    IF op \in {"MOVB", "MOVB_A", "MOVB_AR", "MOVB_RA", "LDB"} THEN 1
    ELSE IF op \in {"MOVF", "MOVF_A", "MOVF_AR", "MOVF_RA", "LDF"} THEN 4
    ELSE 8

RECURSIVE SumSeq(_)
SumSeq(s) == IF s = <<>> THEN 0 ELSE Head(s) + SumSeq(Tail(s))

\* get_op, once per operand: the operands as byte strings.
RECURSIVE ReadOperands(_, _, _)
ReadOperands(code, at, ws) ==
    IF ws = <<>> THEN <<>>
    ELSE <<SubSeq(code, at + 1, at + Head(ws))>>
            \o ReadOperands(code, at + Head(ws), Tail(ws))

\* get_opcode and the get_op calls of the arm: op, its operands o, the ip
\* behind them, and short when the image ends inside the instruction.
Decoded(code, ip, op, size) ==
    [op |-> op,
     short |-> ip + size > Len(code),
     badbool |-> op = "LDB" /\ ip + 2 <= Len(code) /\ code[ip + 2] > 1,
     o |-> IF ip + size > Len(code) THEN <<>>
           ELSE ReadOperands(code, ip + 1, OperandWidths(op)),
     next |-> ip + size]

InstrSize(op) == 1 + SumSeq(OperandWidths(op))

DecodeAt(code, ip, op) == Decoded(code, ip, op, InstrSize(op))

Fetch(c) == DecodeAt(c.program.code, c.ip, OpcodeOf(c.program.code[c.ip + 1]))

\* ------------------------------------------------------------------------
\* api/adapter.rs, api/function.rs: a foreign function and what its closure
\* does with the Adapter.  closure "args" reads every declared argument with
\* get_arg (as the closures of tests/engine.rs do); closure "ret" also calls
\* return_value with an i64.
\* ------------------------------------------------------------------------

ForeignRetValue == 7

\* String::from_utf8 on the bytes the model's programs hold (ASCII or not).
Utf8Ok(bytes) == \A i \in 1..Len(bytes) : bytes[i] < 128

StringData(c, size, ptr) ==
    /\ size.st = "none"
    /\ ptr.st = "none"
    /\ mem_get_n(c, ptr.v, 0, ToIndex(size.v)).st = "none"
    /\ Utf8Ok(mem_get_n(c, ptr.v, 0, ToIndex(size.v)).v)

\* mem_get_string(addr).is_ok()
StringAt(c, addr) ==
    /\ ~addr.ovf
    /\ StringData(c, mem_get_n(c, addr.v, 0, 8),
                  mem_get_n(c, Add64(addr.v, LeBytes(8, 8)).v, 0, 8))

\* The String a closure hands back: 2 bytes at the start of the image.
ForeignString == LeBytes(2, 8) \o Zeros(8)

\* Core::push_stack on the core the Adapter holds
push_bytes(c, bytes) ==
    IF AddressFrom(c.sp).panic
       \/ ToIndex(AddressFrom(c.sp).real_address) + Len(bytes) > Len(c.stack)
    THEN Fail(c, "Panic")
    ELSE [c EXCEPT
             !.stack = WriteAt(@, ToIndex(AddressFrom(c.sp).real_address),
                               bytes),
             !.sp = Add64(@, LeBytes(Len(bytes), 8)).v]

\* FromArg::get(adapter, i) returns rather than unwraps an Err
get_arg(c, f, i) ==
    IF f.arg_types[i] = <<"String">>
    THEN StringAt(c, OffsetWord(c.sp, IF f.arg_offsets[i] < 0
                                      THEN f.arg_offsets[i]
                                      ELSE -f.arg_offsets[i]))
    ELSE mem_get_n(c, c.sp, f.arg_offsets[i],
                   IF f.arg_types[i] = <<"Float">> THEN 4 ELSE 8).st = "none"

\* Function::run
run_closure(c, f) ==
    IF \E i \in 1..Len(f.arg_types) : ~get_arg(c, f, i)
    THEN Fail(c, "Panic")
    ELSE IF f.closure = "ret" THEN SetReg(c, 0, LeBytes(ForeignRetValue, 8))
    ELSE IF f.closure = "push" THEN push_bytes(c, ForeignString)
    ELSE c

\* HashMap::remove on the table of foreign functions
RemoveForeign(c, uid) ==
    [c EXCEPT !.program.foreign_functions =
                  [u \in (DOMAIN @) \ {uid} |-> @[u]]]

\* HashMap::insert behind the closure; a panic of the closure unwinds past
\* it.
InsertForeign(c, uid, function) ==
    IF c.err # "none" THEN c
    ELSE [c EXCEPT !.program.foreign_functions = (uid :> function) @@ @]

\* A call that leaves the descriptor out of the table.
call_foreign_fn_removed(c, uid) ==
    IF ~c.program.some THEN Fail(c, "NoProgram")
    ELSE IF uid \notin DOMAIN c.program.foreign_functions
    THEN Fail(c, "UnknownFunctionUid")
    ELSE run_closure(RemoveForeign(c, uid), c.program.foreign_functions[uid])

call_foreign_fn(c, uid) ==
    IF ~c.program.some THEN Fail(c, "NoProgram")
    ELSE IF uid \notin DOMAIN c.program.foreign_functions
    THEN Fail(c, "UnknownFunctionUid")
    ELSE InsertForeign(run_closure(RemoveForeign(c, uid),
                                   c.program.foreign_functions[uid]),
                       uid, c.program.foreign_functions[uid])

\* call(): c.ip is already behind the uid operand.
call(c, uid) ==
    IF uid \in c.foreign_function_uids THEN call_foreign_fn(c, uid)
    ELSE IF uid \notin DOMAIN c.program.functions
    THEN Fail(c, "UnknownFunctionUid")
    ELSE [c EXCEPT !.call_stack = <<c.ip>> \o @,
                   !.ip = c.program.functions[uid]]

\* ------------------------------------------------------------------------
\* vm/core.rs, run_at: one operator per group of arms of the match.  c is
\* the core with ip already behind the operands o of the instruction.
\* ------------------------------------------------------------------------

\* A HALT that leaves the loop as the RET of an external call does.
exec_halt_break(c, o) == [c EXCEPT !.brk = TRUE]

exec_halt(c, o) ==
    IF o[1][1] = 1 THEN Fail(c, "NoReturnValue") ELSE Fail(c, "Halted")

\* The value of width MoveWidth(op) a register holds.
RegValue(c, op, r) ==
    IF MoveWidth(op) = 1 THEN <<BoolByte(RegBool(c, r))>>
    ELSE SubSeq(reg(c, r), 1, MoveWidth(op))

\* MOVB, MOVF, MOVI, MOVA lhs, rhs
exec_mov(c, op, o) ==
    IF ~ValidReg(o[1][1]) \/ ~ValidReg(o[2][1]) THEN Fail(c, "InvalidRegister")
    ELSE SetReg(c, o[2][1], RegValue(c, op, o[1][1]))

\* MOVB_A .. MOVN_A [lhs_reg + lhs_offset], [rhs_reg + rhs_offset]
exec_mov_a(c, op, o) ==
    IF ~ValidReg(o[1][1]) \/ ~ValidReg(o[3][1]) THEN Fail(c, "InvalidRegister")
    ELSE mem_mov_n(c, reg(c, o[1][1]), ToI16(o[2]),
                   reg(c, o[3][1]), ToI16(o[4]),
                   IF op = "MOVN_A" THEN ToIndex(o[5]) ELSE MoveWidth(op))

LoadedToReg(c, op, m, r) ==
    IF m.st # "none" THEN Fail(c, m.st)
    ELSE IF op = "MOVB_AR" /\ m.v[1] > 1 THEN Fail(c, "OperatorDeserialize")
    ELSE IF ~ValidReg(r) THEN Fail(c, "InvalidRegister")
    ELSE SetReg(c, r, m.v)

\* MOVB_AR .. MOVA_AR [lhs_reg + lhs_offset], rhs_reg
exec_mov_ar(c, op, o) ==
    IF ~ValidReg(o[1][1]) THEN Fail(c, "InvalidRegister")
    ELSE LoadedToReg(c, op,
                     mem_get_n(c, reg(c, o[1][1]), ToI16(o[2]), MoveWidth(op)),
                     o[3][1])

\* MOVB_RA .. MOVA_RA lhs_reg, [rhs_reg + rhs_offset]
exec_mov_ra(c, op, o) ==
    IF ~ValidReg(o[2][1]) \/ ~ValidReg(o[1][1]) THEN Fail(c, "InvalidRegister")
    ELSE mem_set(c, reg(c, o[2][1]), ToI16(o[3]), RegValue(c, op, o[1][1]))

\* LDB, LDF, LDI, LDA value, reg
exec_ld(c, o) ==
    IF ~ValidReg(o[2][1]) THEN Fail(c, "InvalidRegister")
    ELSE SetReg(c, o[2][1], o[1])

\* i64 addition and subtraction: the overflow is the signed one.
SignedSum(a, b, s) ==
    [v |-> s.v, ovf |-> IsNeg(a) = IsNeg(b) /\ IsNeg(s.v) # IsNeg(a)]

SignedDiff(a, b, s) ==
    [v |-> s.v, ovf |-> IsNeg(a) # IsNeg(b) /\ IsNeg(s.v) # IsNeg(a)]

Arith(op, a, b) ==
    CASE op \in {"ADDI", "ADDI_I"} -> SignedSum(a, b, Add64(a, b))
      [] op \in {"SUBI", "SUBI_I"} -> SignedDiff(a, b, Sub64(a, b))
      [] op \in {"ADDU", "ADDU_I"} -> Add64(a, b)
      [] op \in {"SUBU", "SUBU_I"} -> Sub64(a, b)
      [] op \in {"MULU", "MULU_I"} -> Mul64(a, b)

\* ADDI, SUBI, ADDU, SUBU, MULU lhs_reg, rhs_reg, target_reg
exec_arith(c, op, o) ==
    IF ~ValidReg(o[1][1]) \/ ~ValidReg(o[2][1]) \/ ~ValidReg(o[3][1])
    THEN Fail(c, "InvalidRegister")
    ELSE SetChecked(c, o[3][1], Arith(op, reg(c, o[1][1]), reg(c, o[2][1])))

\* The guard of ADDU_I sp, rhs, sp: sum is real_address + rhs.
SpGuard(c, a, sum, x) ==
    IF a.panic \/ (sum.ovf /\ c.checks) THEN Fail(c, "Panic")
    ELSE IF ToIndex(sum.v) > Len(c.stack) THEN Fail(c, "StackOverflow")
    ELSE SetChecked(c, 16, x)

SpGuardAt(c, a, rhs, x) ==
    SpGuard(c, a, Add64(a.real_address, rhs), x)

\* ADDI_I, SUBI_I, ADDU_I, SUBU_I, MULU_I lhs_reg, rhs, target_reg
exec_arith_i(c, op, o) ==
    IF ~ValidReg(o[1][1]) THEN Fail(c, "InvalidRegister")
    ELSE IF op = "ADDU_I" /\ o[1][1] = 16 /\ o[3][1] = 16
    THEN SpGuardAt(c, AddressFrom(c.sp), o[2], Add64(c.sp, o[2]))
    ELSE IF ~ValidReg(o[3][1]) THEN Fail(c, "InvalidRegister")
    ELSE SetChecked(c, o[3][1], Arith(op, reg(c, o[1][1]), o[2]))

\* JMP target; JMPT, JMPF lhs_reg, target
exec_jmp(c, op, o) ==
    IF op = "JMP" THEN [c EXCEPT !.ip = ToIndex(o[1])]
    ELSE IF ~ValidReg(o[1][1]) THEN Fail(c, "InvalidRegister")
    ELSE IF RegBool(c, o[1][1]) = (op = "JMPT")
    THEN [c EXCEPT !.ip = ToIndex(o[2])]
    ELSE c

\* DJMP lhs_reg; DJMPT, DJMPF lhs_reg, rhs_reg
exec_djmp(c, op, o) ==
    IF \E i \in 1..Len(o) : ~ValidReg(o[i][1]) THEN Fail(c, "InvalidRegister")
    ELSE IF op = "DJMP" THEN [c EXCEPT !.ip = ToIndex(reg(c, o[1][1]))]
    ELSE IF RegBool(c, o[1][1]) = (op = "DJMPT")
    THEN [c EXCEPT !.ip = ToIndex(reg(c, o[2][1]))]
    ELSE c

\* NOT lhs_reg, rhs_reg; AND, OR lhs_reg, rhs_reg, target_reg
exec_logic(c, op, o) ==
    IF \E i \in 1..Len(o) : ~ValidReg(o[i][1]) THEN Fail(c, "InvalidRegister")
    ELSE IF op = "NOT"
    THEN SetReg(c, o[2][1], <<BoolByte(~RegBool(c, o[1][1]))>>)
    ELSE IF op = "AND"
    THEN SetReg(c, o[3][1],
                <<BoolByte(RegBool(c, o[1][1]) /\ RegBool(c, o[2][1]))>>)
    ELSE SetReg(c, o[3][1],
                <<BoolByte(RegBool(c, o[1][1]) \/ RegBool(c, o[2][1]))>>)

Compare(op, a, b) ==
    CASE op = "EQI" -> a = b
      [] op = "NEQI" -> a # b
      [] op = "LTI" -> LessI64(a, b)
      [] op = "GTI" -> LessI64(b, a)
      [] op = "LTEQI" -> ~LessI64(b, a)
      [] op = "GTEQI" -> ~LessI64(a, b)

\* EQI .. GTEQI lhs_reg, rhs_reg, target_reg
exec_cmp(c, op, o) ==
    IF \E i \in 1..Len(o) : ~ValidReg(o[i][1]) THEN Fail(c, "InvalidRegister")
    ELSE SetReg(c, o[3][1],
                <<BoolByte(Compare(op, reg(c, o[1][1]), reg(c, o[2][1])))>>)

\* RET: with an empty call stack the run loop is left (brk).
exec_ret(c) ==
    IF c.call_stack = <<>> THEN [c EXCEPT !.brk = TRUE] ELSE ret(c)

\* The body of run_at's loop for the decoded instruction f.  The arms for
\* division, signed multiplication and float arithmetic are not modelled
\* (no program of the model executes them).
Dispatch(c, f) ==
    IF f.op = "INVALID" THEN Fail(c, "InvalidOpcode")
    ELSE IF f.badbool THEN Fail(c, "OperatorDeserialize")
    ELSE IF f.short THEN Fail(c, "Panic")
    ELSE CASE f.op = "NOOP" -> c
           [] f.op = "HALT" -> exec_halt(c, f.o)
           [] f.op \in RegMoves -> exec_mov(c, f.op, f.o)
           [] f.op \in MemMoves \cup {"MOVN_A"} -> exec_mov_a(c, f.op, f.o)
           [] f.op \in MemLoads -> exec_mov_ar(c, f.op, f.o)
           [] f.op \in MemStores -> exec_mov_ra(c, f.op, f.o)
           [] f.op \in Immediates -> exec_ld(c, f.o)
           [] f.op \in IntArith -> exec_arith(c, f.op, f.o)
           [] f.op \in IntArithImm -> exec_arith_i(c, f.op, f.o)
           [] f.op \in {"JMP", "JMPT", "JMPF"} -> exec_jmp(c, f.op, f.o)
           [] f.op \in {"DJMP", "DJMPT", "DJMPF"} -> exec_djmp(c, f.op, f.o)
           [] f.op = "CALL" -> call(c, ToIndex(f.o[1]))
           [] f.op = "RET" -> exec_ret(c)
           [] f.op \in {"NOT", "AND", "OR"} -> exec_logic(c, f.op, f.o)
           [] f.op \in Compares -> exec_cmp(c, f.op, f.o)
           [] OTHER -> Fail(c, "Unmodelled")

\* get_op leaves ip behind the operands it has read.
Advance(c, f) == [c EXCEPT !.ip = IF f.short THEN c.ip + 1 ELSE f.next]

Exec(c) == Dispatch(Advance(c, Fetch(c)), Fetch(c))

\* ------------------------------------------------------------------------
\* codegen/instruction.rs, codegen/builder.rs, codegen/program.rs
\* ------------------------------------------------------------------------

\* Instruction::new(opcode).with_operand(..)...: operands is the byte string
\* of the serialized operands.
Instruction(opcode, operands) == [opcode |-> opcode, operands |-> operands]

U8(v) == LeBytes(v, 1)
I16(v) == LeBytes(v, 2)
U64(v) == LeBytes(v, 8)

RECURSIVE Concat(_)
Concat(ss) ==
    IF ss = <<>> THEN <<>>
    ELSE IF Len(ss) = 1 THEN ss[1]
    ELSE Concat(SubSeq(ss, 1, Len(ss) \div 2))
         \o Concat(SubSeq(ss, Len(ss) \div 2 + 1, Len(ss)))

\* Instruction::get_size
instr_size(instr) == Len(instr.operands) + 1

get_code(instr) == <<OpcodeByte(instr.opcode)>> \o instr.operands

\* Builder::build: the data, then the code of every instruction.
build(data, instructions) ==
    data \o Concat([i \in 1..Len(instructions) |-> get_code(instructions[i])])

\* Builder::get_current_offset, and get_label_offset for the label put at
\* instruction index n.
RECURSIVE SizeBetween(_, _, _)
SizeBetween(instructions, lo, hi) ==
    IF lo > hi THEN 0
    ELSE IF lo = hi THEN instr_size(instructions[lo])
    ELSE SizeBetween(instructions, lo, (lo + hi) \div 2)
         + SizeBetween(instructions, (lo + hi) \div 2 + 1, hi)

SizeBefore(instructions, n) == SizeBetween(instructions, 1, n)

NoProgram ==
    [some |-> FALSE, code |-> <<>>, functions |-> <<>>,
     foreign_functions |-> <<>>]

\* Program::new().with_code(code), with a function table where given.
ProgramOf(code, functions) ==
    [some |-> TRUE, code |-> code, functions |-> functions,
     foreign_functions |-> <<>>]

\* ------------------------------------------------------------------------
\* parser/ast.rs: types, and the tree the parser hands to the compiler.
\* ------------------------------------------------------------------------

TypeInt == <<"Int">>
TypeFloat == <<"Float">>
TypeBool == <<"Bool">>
TypeString == <<"String">>
TypeVoid == <<"Void">>
TypeAuto == <<"Auto">>
Other(name) == <<"Other", name>>
\* Type::Reference(Box<inner>): the second element is the inner type's
\* variant, the third the inner type.
Reference(inner) == <<"Reference", inner[1], inner>>
\* Type::AutoArray(Box<inner>)
AutoArray(inner) == <<"AutoArray", inner>>

\* Type::is_primitive
is_primitive(t) ==
    \/ t[1] \in {"Bool", "Int", "Float"}
    \/ t[1] = "Reference" /\ t[2] # "AutoArray"

IntLiteral(v) == [e |-> "IntLiteral", v |-> v]
\* bits is the f32 as its four little-endian bytes.
FloatLiteral(bits) == [e |-> "FloatLiteral", bits |-> bits]
BoolLiteral(v) == [e |-> "BoolLiteral", v |-> v]
\* s is the token: the bytes of the string between two quote bytes.
StringLiteral(s) == [e |-> "StringLiteral", s |-> s]
Variable(name) == [e |-> "Variable", name |-> name]
\* name is the path of the callee below root, as written ("std::printi").
Call(name, args) == [e |-> "Call", name |-> name, args |-> args]
\* rhs is a Variable (a field) or a Call (a member function).
MemberAccess(lhs, rhs) == [e |-> "MemberAccess", lhs |-> lhs, rhs |-> rhs]
\* members is the HashMap from member name to expression.
ContainerInstance(name, members) ==
    [e |-> "ContainerInstance", name |-> name, members |-> members]
Ref(expr) == [e |-> "Ref", expr |-> expr]
\* Addition, LessThan, Equals, Assign, AddAssign
Binary(op, lhs, rhs) == [e |-> op, lhs |-> lhs, rhs |-> rhs]
\* !expr
Not(expr) == [e |-> "Not", expr |-> expr]

VariableDecl(name, expr) ==
    [s |-> "VariableDecl", name |-> name, type |-> TypeAuto, expr |-> expr]
\* var name: type = expr
VariableDeclOf(name, type, expr) ==
    [s |-> "VariableDecl", name |-> name, type |-> type, expr |-> expr]
Expression(expr) == [s |-> "Expression", expr |-> expr]
Return(expr) == [s |-> "Return", some |-> TRUE, expr |-> expr]
ReturnNone == [s |-> "Return", some |-> FALSE]
\* IfStatementArgs: else_block is <<>> for None and <<block>> for Some.
If(cond, block, else_if_list, else_block) ==
    [s |-> "If", cond |-> cond, block |-> block,
     else_if_list |-> else_if_list, else_block |-> else_block]
While(cond, block) == [s |-> "While", cond |-> cond, block |-> block]
Break == [s |-> "Break"]
Continue == [s |-> "Continue"]

FunctionDecl(name, arguments, returns, code_block) ==
    [d |-> "Function", name |-> name, arguments |-> arguments,
     returns |-> returns, code_block |-> code_block]
ContainerDecl(name, members) ==
    [d |-> "Container", name |-> name, members |-> members]
ImplDecl(impl_type, impl_for, decl_list) ==
    [d |-> "Impl", impl_type |-> impl_type, impl_for |-> impl_for,
     decl_list |-> decl_list]

\* ------------------------------------------------------------------------
\* codegen/def.rs: ContainerDef.  member_variables is a HashMap,
\* member_indices a BTreeMap, which iterates in the order of its keys.
\* ------------------------------------------------------------------------

\* Ord for String, on the member names the sources declare.
StringOrder == <<"a", "b", "x", "y">>

\* The keys of a BTreeMap in iteration order.
Keys(map) == SelectSeq(StringOrder, LAMBDA n : n \in DOMAIN map)

ContainerDef(name) ==
    [name |-> name, member_variables |-> <<>>, member_indices |-> <<>>,
     member_functions |-> <<>>, err |-> "none"]

add_member_function(def, fn_def) ==
    IF fn_def.name \in DOMAIN def.member_functions
    THEN [def EXCEPT !.err = "DuplicateFunction"]
    ELSE [def EXCEPT !.member_functions = (fn_def.name :> fn_def) @@ @]

add_member_variable(def, var) ==
    IF var[1] \in DOMAIN def.member_variables
    THEN [def EXCEPT !.err = "DuplicateMember"]
    ELSE [def EXCEPT
             !.member_variables = (var[1] :> var[2]) @@ @,
             !.member_indices =
                 (var[1] :> Cardinality(DOMAIN def.member_indices)) @@ @]

\* Result::unwrap
Unwrap(r) == IF r.err # "none" THEN [r EXCEPT !.err = "Panic"] ELSE r

RECURSIVE merge_cont_decl(_, _)
merge_cont_decl(def, members) ==
    IF members = <<>> \/ def.err # "none" THEN def
    ELSE merge_cont_decl(Unwrap(add_member_variable(def, Head(members))),
                         Tail(members))

from_decl(item) == merge_cont_decl(ContainerDef(item.name), item.members)

\* Compiler::resolve_container over the containers of the root module: the
\* name the container was declared with, for that name or its canonical
\* name "root::name"; "" stands for Err(UnknownContainer).
ContainerKey(containers, name) ==
    IF \E n \in DOMAIN containers : name \in {n, "root::" \o n}
    THEN CHOOSE n \in DOMAIN containers : name \in {n, "root::" \o n}
    ELSE ""

\* ContainerDef::get_member_type and get_member_function: <<>> for the Err.
get_member_type(def, var_name) ==
    IF var_name \in DOMAIN def.member_variables
    THEN <<def.member_variables[var_name]>> ELSE <<>>

get_member_function(def, name) ==
    IF name \in DOMAIN def.member_functions
    THEN <<def.member_functions[name]>> ELSE <<>>

\* Compiler::get_size_of_type and ContainerDef::get_size over the
\* containers declared so far; -1 stands for an Err.
RECURSIVE get_size_of_type(_, _)
RECURSIVE get_size(_, _)
RECURSIVE SumSizes(_, _, _)
SumSizes(containers, def, names) ==
    IF names = {} THEN 0
    ELSE get_size_of_type(containers,
                          def.member_variables[CHOOSE n \in names : TRUE])
         + SumSizes(containers, def, names \ {CHOOSE n \in names : TRUE})

get_size(containers, def) ==
    SumSizes(containers, def, DOMAIN def.member_variables)

get_size_of_type(containers, t) ==
    CASE t = TypeString -> 16
      [] t = TypeVoid -> 0
      [] t = TypeInt -> 8
      [] t[1] = "Reference" -> IF t[2] = "AutoArray" THEN 16 ELSE 8
      [] t = TypeFloat -> 4
      [] t = TypeBool -> 4
      [] t[1] = "Other" ->
            IF ContainerKey(containers, t[2]) # ""
            THEN get_size(containers,
                          containers[ContainerKey(containers, t[2])])
            ELSE -1
      [] OTHER -> -1

get_member_index(def, name) == def.member_indices[name]

\* The loop of get_member_offset over member_indices.iter().
RECURSIVE MemberWalk(_, _, _, _)
MemberWalk(containers, def, keys, target_index) ==
    IF keys = <<>> \/ def.member_indices[Head(keys)] = target_index THEN 0
    ELSE get_size_of_type(containers, def.member_variables[Head(keys)])
         + MemberWalk(containers, def, Tail(keys), target_index)

get_member_offset(containers, def, var_name) ==
    MemberWalk(containers, def, Keys(def.member_indices),
               get_member_index(def, var_name))

\* ------------------------------------------------------------------------
\* codegen/compiler.rs: the Compiler, a record k.  Every operation takes
\* the compiler and yields the compiler after it; k.err is the Err a `?`
\* hands up ("Panic" for a panic), and an operation on a compiler that
\* carries one does nothing.  A usize that wrapped below zero (release) is
\* held as the negative number it is congruent to.
\*   functions   the root ModuleContext and the foreign modules added to
\*               it, as one map from a path below root to its FunctionDef
\*   modules     the names of the modules added to the root
\*   tagged, patched, loops, calls, bodies, jumps, assigns   history of
\*               the compilation
\*   dropped     history: the indices of the instructions pushed by a
\*               load_code that failed
\* ------------------------------------------------------------------------

CompilerNew(checks) ==
    [err |-> "none", checks |-> checks,
     instructions |-> <<>>, jmp_instructions |-> <<>>, labels |-> <<>>,
     tags |-> <<>>, bytes |-> <<>>, strings |-> <<>>,
     fn_context_stack |-> <<>>, loop_ctx_stack |-> <<>>,
     fn_uid_map |-> <<>>, foreign_functions |-> <<>>,
     foreign_function_uids |-> {}, taken |-> FALSE,
     uid_set |-> 0, uid_functions |-> <<>>,
     functions |-> <<>>, containers |-> <<>>, modules |-> {},
     current_cont |-> "",
     tagged |-> <<>>, patched |-> <<>>, loops |-> <<>>, calls |-> <<>>,
     bodies |-> <<>>, jumps |-> <<>>, assigns |-> <<>>, dropped |-> {},
     branches |-> <<>>, ifs |-> <<>>]

\* `?` on an Err
Raise(k, e) == IF k.err = "none" THEN [k EXCEPT !.err = e] ELSE k

\* The usize v came out of a subtraction: a panic where overflow is checked
\* and v is below zero, a wrap elsewhere.
Underflow(k, v) == IF v < 0 /\ k.checks THEN Raise(k, "Panic") ELSE k

\* UIDGenerator::generate draws a u64 not drawn before; the model draws
\* the next value above every offset of an image.
UidBase == 4096

generate(k) == [k EXCEPT !.uid_set = @ + 1]

\* The u64 the last generate() returned.
LastUid(k) == UidBase + k.uid_set

get_function_uid(k, name) ==
    IF name \in DOMAIN k.uid_functions THEN k
    ELSE [generate(k) EXCEPT
             !.uid_functions = (name :> LastUid(generate(k))) @@ @]

\* Builder
push_label(k, label) ==
    [k EXCEPT !.labels = (label :> Len(k.instructions)) @@ @]

tag(k, t) ==
    IF k.err # "none" THEN k
    ELSE [k EXCEPT
             !.tags = IF t \notin DOMAIN @
                      THEN (t :> <<Len(k.instructions)>>) @@ @
                      ELSE IF \E i \in 1..Len(@[t]) :
                                 @[t][i] = Len(k.instructions)
                      THEN @
                      ELSE [@ EXCEPT ![t] = Append(@, Len(k.instructions))],
             !.tagged = Append(@, Len(k.instructions))]

get_tag(k, t) == k.tags[t]

push_instr(k, instr) ==
    IF k.err # "none" THEN k
    ELSE [k EXCEPT
             !.jmp_instructions =
                 IF instr.opcode \in {"JMP", "JMPT", "JMPF"}
                 THEN Append(@, Len(k.instructions)) ELSE @,
             !.instructions = Append(@, instr)]

get_current_offset(k) == SizeBefore(k.instructions, Len(k.instructions))

get_label_offset(k, label) == SizeBefore(k.instructions, k.labels[label])

\* codegen/instruction.rs
new_inc_stack(inc) == Instruction("ADDU_I", U8(16) \o U64(inc) \o U8(16))

new_dec_stack(dec) == Instruction("SUBU_I", U8(16) \o U64(dec) \o U8(16))

remove_operand_bytes(instr, n) ==
    [instr EXCEPT !.operands = SubSeq(@, 1, Len(@) - n)]

append_operand(instr, bytes) == [instr EXCEPT !.operands = @ \o bytes]

get_operand(instr, offset, size) ==
    SubSeq(instr.operands, offset + 1, offset + size)

\* The instruction at index pos gets its last 8 operand bytes replaced by
\* the address addr, as the compiler does for a tagged jump.
Patch(k, pos, addr) ==
    IF k.err # "none" THEN k
    ELSE [k EXCEPT
             !.instructions[pos + 1] =
                 append_operand(remove_operand_bytes(@, 8), U64(addr)),
             !.patched = Append(@, pos)]

\* codegen/data.rs, Data::get_string_slice: the address is StringAddr.
StringKnown(k, s) == \E i \in 1..Len(k.strings) : k.strings[i].s = s

StringAddr(k, s) ==
    IF StringKnown(k, s)
    THEN k.strings[CHOOSE i \in 1..Len(k.strings) : k.strings[i].s = s].addr
    ELSE Len(k.bytes)

get_string_slice(k, s) ==
    IF StringKnown(k, s) THEN k
    ELSE [k EXCEPT !.strings = Append(@, [s |-> s, addr |-> Len(k.bytes)]),
                   !.bytes = @ \o s]

\* codegen/register.rs
RegisterAllocatorNew ==
    [register_queue |-> [i \in 1..14 |-> i], forced_temp |-> -1]

\* A get_temp_register that leaves the queue as it is.
GetTempKeepsQueue(ra) == [ra EXCEPT !.forced_temp = -1]

get_temp_register(ra) ==
    [register_queue |-> Append(Tail(ra.register_queue),
                               Head(ra.register_queue)),
     forced_temp |-> -1]

\* A force_temp_register that forgets the register.
ForceNothing(ra, r) == ra

get_last_temp_register(ra) ==
    IF ra.forced_temp >= 0 THEN ra.forced_temp
    ELSE ra.register_queue[Len(ra.register_queue)]

force_temp_register(ra, r) == [ra EXCEPT !.forced_temp = r]

\* codegen/context.rs
ArgSizes(containers, arguments) ==
    [i \in 1..Len(arguments) |->
        get_size_of_type(containers, arguments[i][2])]

\* FunctionContext::new: pos starts at minus the size of all arguments and
\* each argument, in order, takes pos and moves it up by its size.
FunctionContextNew(containers, def) ==
    LET sizes == ArgSizes(containers, def.arguments)
        At(n) == CHOOSE i \in 1..Len(def.arguments) :
                    /\ def.arguments[i][1] = n
                    /\ \A j \in (i + 1)..Len(def.arguments) :
                          def.arguments[j][1] # n
        names == {def.arguments[i][1] : i \in 1..Len(def.arguments)}
    IN  [def |-> <<def>>, weak |-> FALSE, is_loop |-> FALSE,
         stack_size |-> 0,
         variable_types |-> [n \in names |-> def.arguments[At(n)][2]],
         variable_positions |->
             [n \in names |->
                 SumSeq(SubSeq(sizes, 1, At(n) - 1)) - SumSeq(sizes)],
         register_allocator |-> RegisterAllocatorNew,
         err |-> IF \E i \in 1..Len(sizes) : sizes[i] < 0
                 THEN "UnknownType" ELSE "none"]

\* FunctionContext::new_weak and new_loop
Derived(fn_ctx, is_loop) ==
    [def |-> <<>>, weak |-> TRUE, is_loop |-> is_loop, stack_size |-> 0,
     variable_types |-> fn_ctx.variable_types,
     variable_positions |->
         [n \in DOMAIN fn_ctx.variable_positions |->
             fn_ctx.variable_positions[n] - fn_ctx.stack_size],
     register_allocator |-> RegisterAllocatorNew,
     err |-> IF \E n \in DOMAIN fn_ctx.variable_positions :
                   fn_ctx.variable_positions[n] - fn_ctx.stack_size >= 0
             THEN "Unknown" ELSE "none"]

new_weak(fn_ctx) == Derived(fn_ctx, FALSE)

new_loop(fn_ctx) == Derived(fn_ctx, TRUE)

set_stack_var(fn_ctx, var_name, var_type, stack_pos) ==
    IF var_name \in DOMAIN fn_ctx.variable_types
       \/ var_name \in DOMAIN fn_ctx.variable_positions
    THEN [fn_ctx EXCEPT !.err = "DuplicateVariable"]
    ELSE [fn_ctx EXCEPT
             !.variable_types = (var_name :> var_type) @@ @,
             !.variable_positions = (var_name :> stack_pos) @@ @]

\* Compiler helpers.  The front of fn_context_stack is index 1.
get_current_function(k) == k.fn_context_stack[1]

get_next_register(k) ==
    IF k.err # "none" THEN k
    ELSE [k EXCEPT !.fn_context_stack[1].register_allocator =
                       get_temp_register(@)]

get_last_register(k) ==
    get_last_temp_register(get_current_function(k).register_allocator)

\* The first context that is not weak.
get_parent_function(k) ==
    k.fn_context_stack[CHOOSE i \in 1..Len(k.fn_context_stack) :
                          /\ ~k.fn_context_stack[i].weak
                          /\ \A j \in 1..(i - 1) : k.fn_context_stack[j].weak]

\* A context comes as a Result: its Err is handed up and nothing is pushed.
push_function_context(k, fn_ctx) ==
    IF k.err # "none" THEN k
    ELSE IF fn_ctx.err # "none" THEN Raise(k, fn_ctx.err)
    ELSE [k EXCEPT !.fn_context_stack = <<fn_ctx>> \o @]

pop_function_context(k) ==
    IF k.err # "none" THEN k ELSE [k EXCEPT !.fn_context_stack = Tail(@)]

inc_stack(k, size) ==
    IF k.err # "none" THEN k
    ELSE [k EXCEPT !.fn_context_stack[1].stack_size = @ + size]

dec_stack(k, size) ==
    IF k.err # "none" THEN k
    ELSE Underflow([k EXCEPT !.fn_context_stack[1].stack_size = @ - size],
                   get_current_function(k).stack_size - size)

\* Compiler::get_stack_size
current_stack_size(k) == get_current_function(k).stack_size

\* A CompilerResult<Type> that is an Err.
TypeErr(e) == <<"Err", e>>

IsErr(t) == t[1] = "Err"

\* get_type_of_var: the first context, from the front, that knows the name.
get_type_of_var(k, var_name) ==
    LET known == {i \in 1..Len(k.fn_context_stack) :
                     var_name \in DOMAIN k.fn_context_stack[i].variable_types}
    IN  IF known = {} THEN TypeErr("UnknownVariable")
        ELSE k.fn_context_stack[CHOOSE i \in known : \A j \in known : i <= j]
                 .variable_types[var_name]

\* get_sp_offset_of_var, for a name the current context knows.
get_sp_offset_of_var(k, var_name) ==
    LET offset == get_current_function(k).stack_size
                  - get_current_function(k).variable_positions[var_name]
    IN  IF offset > 0 THEN -offset ELSE offset

\* The sum of stack_size from the front through the first context that
\* stops the walk: a loop context, or one that is not weak.
RECURSIVE StackThrough(_, _)
StackThrough(ctxs, to_loop) ==
    IF ctxs = <<>> THEN 0
    ELSE Head(ctxs).stack_size
         + IF (to_loop /\ Head(ctxs).is_loop) \/ (~to_loop /\ ~Head(ctxs).weak)
           THEN 0 ELSE StackThrough(Tail(ctxs), to_loop)

\* A cleanup that pops the innermost block only.
compile_stack_block_only(k) ==
    push_instr(k, new_dec_stack(get_current_function(k).stack_size))

compile_stack_loop(k) ==
    push_instr(k, new_dec_stack(StackThrough(k.fn_context_stack, TRUE)))

compile_stack_cleanup_block(k, fn_ctx) ==
    IF fn_ctx.stack_size # 0
    THEN push_instr(k, new_dec_stack(fn_ctx.stack_size))
    ELSE k

compile_stack_cleanup_return(k) ==
    LET Pop(j, pop_size) ==
            IF pop_size = 0 THEN j
            ELSE push_instr(dec_stack(j, pop_size), new_dec_stack(pop_size))
        Sized(stack_size, ret_type, ret_size) ==
            IF ret_size < 0 THEN Raise(k, "UnknownType")
            ELSE IF is_primitive(ret_type) THEN Pop(k, stack_size)
            ELSE IF stack_size - ret_size < 0 /\ k.checks
            THEN Raise(k, "Panic")
            ELSE IF stack_size - ret_size = 0 THEN k
            ELSE Pop(push_instr(k,
                         Instruction("MOVN_A",
                             U8(16) \o I16(-ret_size) \o U8(16)
                             \o I16(-stack_size) \o LeBytes(ret_size, 4))),
                     stack_size - ret_size)
        Typed(stack_size, ret_type) ==
            Sized(stack_size, ret_type,
                  get_size_of_type(k.containers, ret_type))
    IN  IF k.err # "none" THEN k
        ELSE IF \A i \in 1..Len(k.fn_context_stack) :
                   k.fn_context_stack[i].weak
        THEN Raise(k, "Unknown")
        ELSE Typed(StackThrough(k.fn_context_stack, FALSE),
                   get_parent_function(k).def[1].ret_type)

\* resolve_function, for a path below root ("f", "std::f") or a member
\* function by the path of its container ("Vector::f"): <<>> stands for the
\* Err.
resolve_function(k, name) ==
    LET members ==
            {<<c, f>> \in (DOMAIN k.containers)
                          \X UNION {DOMAIN k.containers[c].member_functions :
                                       c \in DOMAIN k.containers} :
                /\ f \in DOMAIN k.containers[c].member_functions
                /\ name = c \o "::" \o f}
    IN  IF name \in DOMAIN k.functions THEN <<k.functions[name]>>
        ELSE IF members # {}
        THEN <<k.containers[(CHOOSE m \in members : TRUE)[1]]
                   .member_functions[(CHOOSE m \in members : TRUE)[2]]>>
        ELSE <<>>

Arithmetic == {"Addition", "Subtraction", "Multiplication", "Division"}

Comparison ==
    {"LessThan", "GreaterThan", "LessThanEquals", "GreaterThanEquals",
     "Equals", "NotEquals"}

Logical == {"And", "Or"}

\* check_member_access_expr_type with cont_def None: the lhs is a stack
\* variable.  A member access whose rhs is one more member access is left
\* out.
check_member_access_expr_type(k, expr) ==
    LET Member(def) ==
            CASE expr.rhs.e = "Variable" ->
                    IF get_member_type(def, expr.rhs.name) = <<>>
                    THEN TypeErr("UnknownMember")
                    ELSE get_member_type(def, expr.rhs.name)[1]
              [] expr.rhs.e = "Call" ->
                    IF get_member_function(def, expr.rhs.name) = <<>>
                    THEN TypeErr("UnknownMember")
                    ELSE get_member_function(def, expr.rhs.name)[1].ret_type
              [] expr.rhs.e = "MemberAccess" -> TypeErr("Unmodelled")
              [] OTHER -> TypeErr("MemberAccessOnNonContainer")
        Named(cont_name) ==
            IF ContainerKey(k.containers, cont_name) = ""
            THEN TypeErr("UnknownContainer")
            ELSE Member(k.containers[ContainerKey(k.containers, cont_name)])
        Typed(lhs_type) ==
            CASE IsErr(lhs_type) -> lhs_type
              [] lhs_type[1] = "Other" -> Named(lhs_type[2])
              [] lhs_type[1] = "Reference" /\ lhs_type[2] = "Other" ->
                    Named(lhs_type[3][2])
              [] OTHER -> TypeErr("MemberAccessOnNonContainer")
    IN  IF expr.lhs.e # "Variable" THEN TypeErr("UnsupportedExpression")
        ELSE Typed(get_type_of_var(k, expr.lhs.name))

RECURSIVE check_expr_type(_, _)
check_expr_type(k, expr) ==
    LET Same(lhs_type, rhs_type, res) ==
            IF IsErr(lhs_type) THEN lhs_type
            ELSE IF IsErr(rhs_type) THEN rhs_type
            ELSE IF lhs_type # rhs_type THEN TypeErr("TypeMismatch")
            ELSE IF res = <<>> THEN lhs_type ELSE res
    IN  CASE expr.e = "IntLiteral" -> TypeInt
          [] expr.e = "FloatLiteral" -> TypeFloat
          [] expr.e = "BoolLiteral" -> TypeBool
          [] expr.e = "StringLiteral" -> TypeString
          [] expr.e = "Ref" ->
                IF IsErr(check_expr_type(k, expr.expr))
                THEN check_expr_type(k, expr.expr)
                ELSE Reference(check_expr_type(k, expr.expr))
          [] expr.e = "MemberAccess" -> check_member_access_expr_type(k, expr)
          [] expr.e = "ContainerInstance" -> Other(expr.name)
          [] expr.e = "Call" ->
                IF resolve_function(k, expr.name) = <<>>
                THEN TypeErr("UnknownFunction")
                ELSE resolve_function(k, expr.name)[1].ret_type
          [] expr.e = "Variable" -> get_type_of_var(k, expr.name)
          [] expr.e \in Arithmetic \cup {"Assign"} ->
                Same(check_expr_type(k, expr.lhs),
                     check_expr_type(k, expr.rhs), <<>>)
          [] expr.e \in Comparison ->
                Same(check_expr_type(k, expr.lhs),
                     check_expr_type(k, expr.rhs), TypeBool)
          [] expr.e = "Not" ->
                IF IsErr(check_expr_type(k, expr.expr))
                THEN check_expr_type(k, expr.expr)
                ELSE IF check_expr_type(k, expr.expr) # TypeBool
                THEN TypeErr("TypeMismatch")
                ELSE TypeBool
          \* And, Or: the two operand types are compared with each other
          [] expr.e \in Logical ->
                Same(check_expr_type(k, expr.lhs),
                     check_expr_type(k, expr.rhs), TypeBool)
          [] OTHER -> TypeErr("UnsupportedExpression")

\* The opcode of a binary expression over int operands.
IntOpcode ==
    [Addition |-> "ADDI", Subtraction |-> "SUBI", Multiplication |-> "MULI",
     Division |-> "DIVI", LessThan |-> "LTI", GreaterThan |-> "GTI",
     LessThanEquals |-> "LTEQI", GreaterThanEquals |-> "GTEQI",
     Equals |-> "EQI", NotEquals |-> "NEQI"]

\* The opcode of And and Or, whatever the operands are.
LogicOpcode == [And |-> "AND", Or |-> "OR"]

\* push_instr for each of the instructions, in order
PushAll(k, instrs) ==
    IF k.err # "none" THEN k
    ELSE [k EXCEPT
             !.jmp_instructions =
                 @ \o SelectSeq(
                          [i \in 1..Len(instrs) |-> Len(k.instructions) + i - 1],
                          LAMBDA pos :
                              instrs[pos - Len(k.instructions) + 1].opcode
                                  \in {"JMP", "JMPT", "JMPF"}),
             !.instructions = @ \o instrs]

\* compile_var_expr: a primitive variable is loaded into the next register,
\* a slice reference or a container is copied to the top of the stack (a
\* string variable is Err(UnknownType) in the code).
compile_var_expr(k, expr) ==
    LET Load(j, op) ==
            push_instr(j, Instruction(op,
                U8(16) \o I16(get_sp_offset_of_var(k, expr.name))
                \o U8(get_last_register(j))))
        Copy(size) ==
            PushAll(inc_stack(k, size),
                <<new_inc_stack(size),
                  Instruction("MOVN_A",
                      U8(16) \o I16(get_sp_offset_of_var(k, expr.name) - size)
                      \o U8(16) \o I16(-size) \o LeBytes(size, 4))>>)
        Typed(var_type) ==
            CASE IsErr(var_type) -> Raise(k, var_type[2])
              [] expr.name
                    \notin DOMAIN get_current_function(k).variable_positions
                    -> Raise(k, "UnknownVariable")
              [] var_type = TypeInt -> Load(get_next_register(k), "MOVI_AR")
              [] var_type = TypeFloat -> Load(get_next_register(k), "MOVF_AR")
              [] var_type = TypeBool -> Load(get_next_register(k), "MOVB_AR")
              [] var_type[1] = "Reference" ->
                    IF var_type[2] = "AutoArray" THEN Copy(16)
                    ELSE Load(get_next_register(k), "MOVA_AR")
              [] var_type[1] = "Other" ->
                    IF ContainerKey(k.containers, var_type[2]) = ""
                    THEN Raise(k, "UnknownContainer")
                    ELSE Copy(get_size(k.containers,
                             k.containers[ContainerKey(k.containers,
                                                       var_type[2])]))
              [] OTHER -> Raise(k, "UnknownType")
    IN  IF k.err # "none" THEN k ELSE Typed(get_type_of_var(k, expr.name))

\* A MOVN_A whose target is the distance moved, not the offset below SP.
MoveDownByDistance(from, to, n) ==
    Instruction("MOVN_A",
        U8(16) \o I16(-from) \o U8(16) \o I16(-(to - from)) \o LeBytes(n, 4))

\* The MOVN_A that moves n bytes from [SP - from] down to [SP - to].
MoveDown(from, to, n) ==
    Instruction("MOVN_A",
        U8(16) \o I16(-from) \o U8(16) \o I16(-to) \o LeBytes(n, 4))

\* The tail shared by compile_expr and by each argument of a call: what
\* the expression left on the stack above its value is popped, a value
\* that is not primitive is first moved down over it (n bytes of it).
PopAbove(k, type, size, stack_diff, n) ==
    LET Pop(j, pop_size) ==
            IF pop_size = 0 THEN j
            ELSE push_instr(dec_stack(j, pop_size), new_dec_stack(pop_size))
    IN  IF k.err # "none" THEN k
        ELSE IF stack_diff < 0 /\ k.checks THEN Raise(k, "Panic")
        ELSE IF is_primitive(type) THEN Pop(k, stack_diff)
        ELSE IF stack_diff - size < 0 /\ k.checks THEN Raise(k, "Panic")
        ELSE IF stack_diff - size = 0 THEN k
        ELSE Pop(push_instr(k, MoveDown(size, stack_diff, n)),
                 stack_diff - size)

\* The store of a primitive argument or variable of the type from the
\* register r to [SP - size]; <<>> where the code has None.
StoreOf(type, r, size) ==
    IF type[1] \in {"Int", "Float", "Bool", "Reference"}
    THEN <<Instruction(CASE type = TypeInt -> "MOVI_RA"
                         [] type = TypeFloat -> "MOVF_RA"
                         [] type = TypeBool -> "MOVB_RA"
                         [] OTHER -> "MOVA_RA",
                       U8(r) \o U8(16) \o I16(-size))>>
    ELSE <<>>

\* An lhs that yields the address of the first byte of the frame, whatever
\* the variable.
LhsOfFrameBase(k, expr) ==
    IF k.err # "none" THEN k
    ELSE IF expr.e # "Variable" THEN Raise(k, "UnsupportedExpression")
    ELSE push_instr(get_next_register(k),
             Instruction("SUBU_I",
                 U8(16) \o U64(get_current_function(k).stack_size)
                 \o U8(get_last_register(get_next_register(k)))))

\* compile_lhs_assign_expr, for a variable: its address goes to a register.
compile_lhs_assign_expr(k, expr) ==
    LET Sub(j, stack_offset) ==
            push_instr(j, Instruction("SUBU_I",
                U8(16) \o U64(IF stack_offset < 0 THEN -stack_offset
                              ELSE stack_offset)
                \o U8(get_last_register(j))))
    IN  IF k.err # "none" THEN k
        ELSE IF expr.e # "Variable" THEN Raise(k, "UnsupportedExpression")
        ELSE IF expr.name
                \notin DOMAIN get_current_function(k).variable_positions
        THEN Raise(k, "UnknownVariable")
        ELSE Sub(get_next_register(k), get_sp_offset_of_var(k, expr.name))

RECURSIVE compile_expr(_, _)
RECURSIVE compile_call_expr(_, _)
RECURSIVE CompileArgs(_, _, _, _, _)

\* compile_member_access_expr: the type of the lhs is checked, the offset
\* of the variable is looked up and a register is taken; no instruction is
\* pushed.
compile_member_access_expr(k, expr) ==
    LET Typed(var_type) ==
            CASE k.err # "none" -> k
              [] IsErr(var_type) -> Raise(k, var_type[2])
              [] ~(\/ var_type[1] = "Other"
                   \/ var_type[1] = "Reference" /\ var_type[2] = "Other") ->
                    Raise(k, "UnsupportedExpression")
              [] expr.lhs.e # "Variable" -> Raise(k, "UnsupportedExpression")
              [] expr.lhs.name
                    \notin DOMAIN get_current_function(k).variable_positions
                    -> Raise(k, "UnknownVariable")
              [] OTHER -> get_next_register(k)
    IN  Typed(check_expr_type(k, expr.lhs))

\* The second loop of compile_cont_instance_expr, over the member names
\* in the order of their indices.
RECURSIVE InstanceMembers(_, _, _)
InstanceMembers(k, members, names) ==
    LET Put(j, size, op) ==
            PushAll(inc_stack(j, size),
                <<new_inc_stack(size),
                  Instruction(op,
                      U8(get_last_register(j)) \o U8(16) \o I16(-size))>>)
        Placed(j, expr_type) ==
            CASE j.err # "none" -> j
              [] expr_type = TypeInt -> Put(j, 8, "MOVI_RA")
              [] expr_type = TypeBool -> Put(j, 1, "MOVB_RA")
              [] expr_type = TypeFloat -> Put(j, 4, "MOVF_RA")
              [] expr_type[1] = "Reference" /\ expr_type[2] # "AutoArray" ->
                    Put(j, 8, "MOVA_RA")
              [] OTHER -> j
        Typed(expr_type) ==
            IF IsErr(expr_type) THEN Raise(k, expr_type[2])
            ELSE InstanceMembers(
                     Placed(compile_expr(k, members[Head(names)]), expr_type),
                     members, Tail(names))
    IN  IF names = <<>> \/ k.err # "none" THEN k
        ELSE Typed(check_expr_type(k, members[Head(names)]))

compile_cont_instance_expr(k, expr) ==
    LET \* member_map_ordered: the names given, by member index
        Ordered(def, given) ==
            CHOOSE seq \in [1..Cardinality(given) -> given] :
                \A a, b \in 1..Cardinality(given) :
                    a < b => def.member_indices[seq[a]]
                               < def.member_indices[seq[b]]
        Resolved(def, given) ==
            IF \E m \in given : m \notin DOMAIN def.member_indices
            THEN Raise(k, "UnknownMember")
            ELSE InstanceMembers(k, expr.members, Ordered(def, given))
        Named(key) ==
            IF key = "" THEN Raise(k, "UnknownContainer")
            ELSE Resolved(k.containers[key], DOMAIN expr.members)
    IN  IF k.err # "none" THEN k
        ELSE Named(ContainerKey(k.containers, expr.name))

\* The loop of compile_call_expr over the arguments, from argument i on;
\* stack_size is the counter before this argument.
CompileArgs(k, fn_def, args, i, stack_size) ==
    LET Marshal(j, type, size, last_reg) ==
            IF j.err # "none" THEN j
            ELSE IF type[1] \in {"Int", "Float", "Bool"}
                    \/ (type[1] = "Reference" /\ type[2] # "AutoArray")
            THEN inc_stack(PushAll(j, <<new_inc_stack(size)>>
                                      \o StoreOf(type, last_reg, size)),
                           size)
            ELSE IF type = TypeString \/ type[1] = "Reference" THEN j
            ELSE Raise(j, "UnknownType")
        Rest(j) ==
            IF j.err # "none" THEN j
            ELSE CompileArgs(j, fn_def, args, i + 1, current_stack_size(j))
        Popped_(j, type, size) ==
            Rest(Marshal(j, type, size, get_last_register(j)))
        Compiled_(j, type, size) ==
            IF j.err # "none" THEN j
            ELSE Popped_(PopAbove(j, type, size,
                                  current_stack_size(j) - stack_size, size),
                         type, size)
    IN  CASE k.err # "none" \/ i > Len(args) -> k
          [] IsErr(check_expr_type(k, args[i])) ->
                Raise(k, check_expr_type(k, args[i])[2])
          [] fn_def.arguments[i][2] # check_expr_type(k, args[i]) ->
                Raise(k, "TypeMismatch")
          [] OTHER ->
                Compiled_(compile_expr(k, args[i]),
                          check_expr_type(k, args[i]),
                          get_size_of_type(k.containers,
                                           check_expr_type(k, args[i])))

compile_call_expr(k, expr) ==
    LET Logged(j, fn_def, ret_size, before, start, at) ==
            IF j.err # "none" THEN j
            ELSE [j EXCEPT !.calls = Append(@,
                     [start |-> start, at |-> at,
                      end |-> get_current_offset(j),
                      before |-> before, after |-> current_stack_size(j),
                      ret_size |-> ret_size, uid |-> fn_def.uid,
                      composite |-> ~is_primitive(fn_def.ret_type)])]
        Pop(j, pop_size) ==
            push_instr(dec_stack(j, pop_size), new_dec_stack(pop_size))
        Restore(j, fn_def, ret_size, stack_diff) ==
            IF j.err # "none" THEN j
            ELSE IF stack_diff < 0 /\ j.checks THEN Raise(j, "Panic")
            ELSE IF is_primitive(fn_def.ret_type) THEN Pop(j, stack_diff)
            ELSE IF stack_diff - ret_size < 0 /\ j.checks
            THEN Raise(j, "Panic")
            ELSE Pop(push_instr(j, MoveDown(ret_size, stack_diff, ret_size)),
                     stack_diff - ret_size)
        Called_(j, fn_def, ret_size, before) ==
            Restore(j, fn_def, ret_size, current_stack_size(j) - before)
        Args(j, fn_def, ret_size, before) ==
            IF j.err # "none" THEN j
            ELSE Logged(Called_(IF is_primitive(fn_def.ret_type)
                                THEN push_instr(j,
                                         Instruction("CALL",
                                                     U64(fn_def.uid)))
                                ELSE inc_stack(
                                         push_instr(j,
                                             Instruction("CALL",
                                                         U64(fn_def.uid))),
                                         ret_size),
                                fn_def, ret_size, before),
                        fn_def, ret_size, before, get_current_offset(k),
                        get_current_offset(j))
        Resolved(fn_def) ==
            Args(CompileArgs(k, fn_def, expr.args, 1, current_stack_size(k)),
                 fn_def, get_size_of_type(k.containers, fn_def.ret_type),
                 current_stack_size(k))
    IN  CASE k.err # "none" -> k
          [] resolve_function(k, expr.name) = <<>> ->
                Raise(k, "UnknownFunction")
          [] get_size_of_type(k.containers,
                 resolve_function(k, expr.name)[1].ret_type) < 0 ->
                Raise(k, "UnknownType")
          [] Len(expr.args)
                 # Len(resolve_function(k, expr.name)[1].arguments) ->
                Raise(k, "UnknownFunction")
          [] OTHER -> Resolved(resolve_function(k, expr.name)[1])

\* The match of compile_expr on the kind of the expression.
compile_expr_match(k, expr) ==
    LET Lit(j, op, bytes) ==
            push_instr(j, Instruction(op, bytes \o U8(get_last_register(j))))
        Str(size_reg, j, size, addr) ==
            PushAll(j,
                <<new_inc_stack(16),
                  Instruction("LDA", U64(size) \o U8(size_reg)),
                  Instruction("LDA", U64(addr) \o U8(get_last_register(j))),
                  Instruction("MOVA_RA", U8(size_reg) \o U8(16) \o I16(-16)),
                  Instruction("MOVA_RA",
                      U8(get_last_register(j)) \o U8(16) \o I16(-8))>>)
        Sliced(j, string) ==
            Str(get_last_register(j), get_next_register(j), Len(string),
                StringAddr(k, string))
        Op(lhs_reg, rhs_reg, j, type) ==
            IF expr.e \in Logical
            THEN push_instr(j, Instruction(LogicOpcode[expr.e],
                     U8(lhs_reg) \o U8(rhs_reg) \o U8(get_last_register(j))))
            ELSE IF type = TypeInt
            THEN push_instr(j, Instruction(IntOpcode[expr.e],
                     U8(lhs_reg) \o U8(rhs_reg) \o U8(get_last_register(j))))
            ELSE IF type = TypeFloat THEN Raise(j, "Unmodelled")
            ELSE Raise(j, "UnsupportedExpression")
        Rhs(lhs_reg, j, type) ==
            IF j.err # "none" THEN j
            ELSE Op(lhs_reg, get_last_register(j),
                    IF type = TypeInt \/ expr.e \in Logical
                    THEN get_next_register(j) ELSE j, type)
        \* NOT op_reg, target_reg
        Negated(j) ==
            IF j.err # "none" THEN j
            ELSE push_instr(get_next_register(j), Instruction("NOT",
                     U8(get_last_register(j))
                     \o U8(get_last_register(get_next_register(j)))))
        Lhs(j, type) ==
            IF j.err # "none" THEN j
            ELSE Rhs(get_last_register(j), compile_expr(j, expr.rhs), type)
    IN  CASE expr.e = "IntLiteral" ->
                Lit(get_next_register(k), "LDI", LeBytes(expr.v, 8))
          [] expr.e = "FloatLiteral" ->
                Lit(get_next_register(k), "LDF", expr.bits)
          [] expr.e = "BoolLiteral" ->
                Lit(get_next_register(k), "LDB", <<BoolByte(expr.v)>>)
          [] expr.e = "ContainerInstance" ->
                compile_cont_instance_expr(k, expr)
          [] expr.e = "Ref" -> compile_lhs_assign_expr(k, expr.expr)
          [] expr.e = "MemberAccess" -> compile_member_access_expr(k, expr)
          [] expr.e = "StringLiteral" ->
                Sliced(get_next_register(inc_stack(
                           get_string_slice(k,
                               SubSeq(expr.s, 2, Len(expr.s) - 1)), 16)),
                       SubSeq(expr.s, 2, Len(expr.s) - 1))
          [] expr.e = "Variable" -> compile_var_expr(k, expr)
          [] expr.e = "Call" -> compile_call_expr(k, expr)
          [] expr.e \in Arithmetic \cup Comparison \cup Logical ->
                Lhs(compile_expr(k, expr.lhs), check_expr_type(k, expr.lhs))
          [] expr.e = "Not" -> Negated(compile_expr(k, expr.expr))
          [] OTHER -> Raise(k, "UnsupportedExpression")

compile_expr(k, expr) ==
    LET \* the result of a call to a primitive function is in R0
        Forced(j) ==
            IF expr.e = "Call"
               /\ is_primitive(resolve_function(k, expr.name)[1].ret_type)
            THEN [j EXCEPT !.fn_context_stack[1].register_allocator =
                               force_temp_register(@, 0)]
            ELSE j
        Finish(j, expr_type, expr_size) ==
            IF j.err # "none" THEN j
            ELSE PopAbove(Forced(j), expr_type, expr_size,
                          current_stack_size(j) - current_stack_size(k), 16)
        Sized(j, expr_type, expr_size) ==
            CASE k.err # "none" -> k
              [] IsErr(expr_type) -> Raise(k, expr_type[2])
              [] expr_size < 0 -> Raise(k, "UnknownType")
              [] OTHER -> Finish(j, expr_type, expr_size)
        Typed(j, expr_type) ==
            Sized(j, expr_type, get_size_of_type(k.containers, expr_type))
    IN  Typed(compile_expr_match(k, expr), check_expr_type(k, expr))

\* The rhs of an assignment: a compound assignment becomes the operation.
AssignedExpr(expr) ==
    CASE expr.e = "Assign" -> expr.rhs
      [] expr.e = "AddAssign" -> Binary("Addition", expr.lhs, expr.rhs)
      [] expr.e = "SubAssign" -> Binary("Subtraction", expr.lhs, expr.rhs)
      [] expr.e = "MulAssign" -> Binary("Multiplication", expr.lhs, expr.rhs)
      [] expr.e = "DivAssign" -> Binary("Division", expr.lhs, expr.rhs)

compile_var_assign_stmt_expr(k, assign_expr) ==
    LET rhs_expr == AssignedExpr(assign_expr)
        Assign(j, rhs_type, rhs_reg, stack_offset) ==
            PushAll(j,
                <<Instruction("MOVA_AR",
                      U8(16) \o I16(stack_offset)
                      \o U8(get_last_register(j)))>>
                \o IF is_primitive(rhs_type)
                   THEN <<Instruction(StoreOf(rhs_type, 0, 0)[1].opcode,
                              U8(rhs_reg) \o U8(get_last_register(j))
                              \o I16(0))>>
                   ELSE <<Instruction("MOVN_A",
                              U8(16)
                              \o I16(-get_size_of_type(k.containers,
                                                       rhs_type))
                              \o U8(get_last_register(j)) \o I16(0)
                              \o LeBytes(get_size_of_type(k.containers,
                                                          rhs_type), 4))>>)
        Rhs(j, rhs_type, lhs_ptr_pos) ==
            IF j.err # "none" THEN j
            ELSE Assign(get_next_register(j), rhs_type, get_last_register(j),
                        -(current_stack_size(j) - lhs_ptr_pos))
        \* j holds the saved lhs pointer, rhs the compiled rhs behind it
        Saved(j, rhs, lhs_type, rhs_type) ==
            CASE j.err # "none" -> j
              [] IsErr(rhs_type) -> Raise(j, rhs_type[2])
              [] lhs_type # rhs_type -> Raise(j, "TypeMismatch")
              [] OTHER -> Rhs(rhs, rhs_type, current_stack_size(j) - 8)
        Lhs(j) ==
            IF j.err # "none" THEN j
            ELSE PushAll(inc_stack(j, 8),
                     <<new_inc_stack(8),
                       Instruction("MOVA_RA",
                           U8(get_last_register(j)) \o U8(16) \o I16(-8))>>)
        \* history: the instructions of the statement, what it assigns
        Logged(j) ==
            IF j.err # "none" THEN j
            ELSE [j EXCEPT !.assigns = Append(@,
                     [start |-> get_current_offset(k),
                      end |-> get_current_offset(j),
                      op |-> assign_expr.e,
                      lhs |-> assign_expr.lhs, rhs |-> assign_expr.rhs])]
    IN  Logged(Saved(
            Lhs(compile_lhs_assign_expr(k, assign_expr.lhs)),
            compile_expr(Lhs(compile_lhs_assign_expr(k, assign_expr.lhs)),
                         rhs_expr),
            get_type_of_var(k, assign_expr.lhs.name),
            check_expr_type(Lhs(compile_lhs_assign_expr(k, assign_expr.lhs)),
                            rhs_expr)))

compile_var_decl_stmt(k, stmt) ==
    LET Placed(j, fn_ctx) ==
            IF fn_ctx.err # "none" THEN Raise(j, fn_ctx.err)
            ELSE [j EXCEPT !.fn_context_stack[1] = fn_ctx]
        Declared(j, var_type, var_size) ==
            IF j.err # "none" THEN j
            ELSE IF current_stack_size(j) - var_size < 0 /\ j.checks
            THEN Raise(j, "Panic")
            ELSE Placed(j, set_stack_var(get_current_function(j), stmt.name,
                            var_type, current_stack_size(j) - var_size))
        Stored(j, var_type, var_size) ==
            IF j.err # "none" \/ ~is_primitive(var_type) THEN j
            ELSE inc_stack(PushAll(j, <<new_inc_stack(var_size)>>
                                      \o StoreOf(var_type,
                                                 get_last_register(j),
                                                 var_size)),
                           var_size)
        Valued(j, var_type, var_size) ==
            IF j.err # "none" THEN j
            ELSE Declared(Stored(j, var_type, var_size), var_type, var_size)
        Sized(j, var_type, var_size) ==
            IF var_size < 0 THEN Raise(k, "UnknownType")
            ELSE Valued(j, var_type, var_size)
        Typed(j, expr_type) ==
            IF IsErr(expr_type) THEN Raise(k, expr_type[2])
            ELSE Sized(j,
                       IF stmt.type = TypeAuto THEN expr_type ELSE stmt.type,
                       get_size_of_type(k.containers,
                           IF stmt.type = TypeAuto THEN expr_type
                           ELSE stmt.type))
    IN  IF k.err # "none" THEN k
        ELSE Typed(compile_expr(k, stmt.expr), check_expr_type(k, stmt.expr))

compile_expr_stmt(k, stmt) ==
    IF k.err # "none" THEN k
    ELSE IF stmt.expr.e = "Call" THEN compile_expr(k, stmt.expr)
    ELSE IF stmt.expr.e \in {"Assign", "AddAssign", "SubAssign", "MulAssign",
                            "DivAssign"}
    THEN compile_var_assign_stmt_expr(k, stmt.expr)
    ELSE Raise(k, "UnsupportedExpression")

\* A return statement that emits nothing.
compile_return_dropped(k, stmt) == k

compile_return_stmt(k, stmt) ==
    LET Ret(j) == push_instr(compile_stack_cleanup_return(j),
                             Instruction("RET", <<>>))
        Moved(j, fn_ret_type) ==
            IF j.err # "none" \/ ~is_primitive(fn_ret_type) THEN j
            ELSE push_instr(j, Instruction(
                     CASE fn_ret_type = TypeInt -> "MOVI"
                       [] fn_ret_type = TypeFloat -> "MOVF"
                       [] fn_ret_type = TypeBool -> "MOVB"
                       [] OTHER -> "MOVA",
                     U8(get_last_register(j)) \o U8(0)))
        Done(j, fn_ret_type) ==
            IF j.err # "none" THEN j ELSE Ret(Moved(j, fn_ret_type))
        Typed(j, return_expr_type, fn_ret_type) ==
            IF IsErr(return_expr_type) THEN Raise(k, return_expr_type[2])
            ELSE IF fn_ret_type # return_expr_type
            THEN Raise(k, "TypeMismatch")
            ELSE IF stmt.some THEN Done(j, fn_ret_type)
            ELSE Ret(k)
    IN  IF k.err # "none" THEN k
        ELSE IF \A i \in 1..Len(k.fn_context_stack) :
                   k.fn_context_stack[i].weak
        THEN Raise(k, "Unknown")
        ELSE Typed(IF stmt.some THEN compile_expr(k, stmt.expr) ELSE k,
                   IF stmt.some THEN check_expr_type(k, stmt.expr)
                   ELSE TypeVoid,
                   get_parent_function(k).def[1].ret_type)

compile_continue_stmt(k) ==
    LET Jump(j) ==
            [push_instr(j, Instruction("JMP",
                                       U64(j.loop_ctx_stack[1].pos_start)))
                EXCEPT !.jumps = Append(@, [kind |-> "continue",
                                            at |-> get_current_offset(j)])]
    IN  IF k.err # "none" THEN k
        ELSE IF k.loop_ctx_stack = <<>>
        THEN Raise(compile_stack_loop(k), "Unknown")
        ELSE Jump(compile_stack_loop(k))

compile_break_stmt(k) ==
    LET Jump(j, tag_end) ==
            [push_instr(tag(j, tag_end), Instruction("JMP", U64(tag_end)))
                EXCEPT !.jumps = Append(@, [kind |-> "break",
                                            at |-> get_current_offset(j)])]
    IN  IF k.err # "none" THEN k
        ELSE IF k.loop_ctx_stack = <<>>
        THEN Raise(compile_stack_loop(k), "Unknown")
        ELSE Jump(compile_stack_loop(k), k.loop_ctx_stack[1].tag_end)

\* Only the first instruction the tag lists gets the address pos.
PatchFirstOnly(k, positions, pos) ==
    IF positions = <<>> THEN k ELSE Patch(k, Head(positions), pos)

\* Every instruction the tag lists gets the address pos.
RECURSIVE PatchAll(_, _, _)
PatchAll(k, positions, pos) ==
    IF positions = <<>> THEN k
    ELSE PatchAll(Patch(k, Head(positions), pos), Tail(positions), pos)

\* The first instruction the tag lists gets the current offset.
PatchNext(k, tag_next) ==
    IF k.err # "none" THEN k
    ELSE IF tag_next \notin DOMAIN k.tags THEN Raise(k, "Unknown")
    ELSE Patch(k, get_tag(k, tag_next)[1], get_current_offset(k))

RECURSIVE compile_stmt_list(_, _)
RECURSIVE compile_if_stmt(_, _)
RECURSIVE compile_while_stmt(_, _)

compile_stmt(k, stmt) ==
    CASE k.err # "none" -> k
      [] stmt.s = "VariableDecl" -> compile_var_decl_stmt(k, stmt)
      [] stmt.s = "Expression" -> compile_expr_stmt(k, stmt)
      [] stmt.s = "If" -> compile_if_stmt(k, stmt)
      [] stmt.s = "While" -> compile_while_stmt(k, stmt)
      [] stmt.s = "Break" -> compile_break_stmt(k)
      [] stmt.s = "Continue" -> compile_continue_stmt(k)
      [] stmt.s = "Return" -> compile_return_stmt(k, stmt)
      [] OTHER -> Raise(k, "Unimplemented")

compile_stmt_list(k, stmt_list) ==
    CASE k.err # "none" -> k
      [] stmt_list = <<>> -> k
      [] OTHER -> compile_stmt_list(compile_stmt(k, Head(stmt_list)),
                                    Tail(stmt_list))

\* The condition of a branch of an if statement.
compile_if_cond(j, cond) ==
    CASE j.err # "none" -> j
      [] IsErr(check_expr_type(j, cond)) ->
            Raise(j, check_expr_type(j, cond)[2])
      [] check_expr_type(j, cond) # TypeBool -> Raise(j, "TypeMismatch")
      [] OTHER -> compile_expr(j, cond)

\* A branch that pops its context and leaves its locals on the stack.
PopContextOnly(j) ==
    IF j.err # "none" THEN j ELSE pop_function_context(j)

\* The pops behind the block of a branch.
compile_if_cleanup(j) ==
    IF j.err # "none" THEN j
    ELSE compile_stack_cleanup_block(pop_function_context(j),
                                     get_current_function(j))

\* Behind the block of a branch: its pops, its JMP to the end, and the
\* JMPF of the branch patched to the current offset.
compile_if_leave(j, tag_next, tag_end) ==
    IF j.err # "none" THEN j
    ELSE PatchNext(push_instr(tag(compile_if_cleanup(j), tag_end),
                              Instruction("JMP", U64(tag_end))),
                   tag_next)

\* history: branch i of the chain opens at cond, its block at the current
\* offset
Branched(j, chain, i, cond) ==
    [j EXCEPT !.branches = Append(@,
        [chain |-> chain, i |-> i, cond |-> cond,
         block |-> get_current_offset(j)])]

\* history: the chain ends at the current offset
Chained(j, chain) ==
    [j EXCEPT !.ifs = Append(@,
        [chain |-> chain, end |-> get_current_offset(j)])]

RECURSIVE compile_if_branch(_, _, _, _, _)

\* The block of branch i: 0 is the if, 1..n the else-ifs, n + 1 the else.
\* b is the compiler ahead of the branch, c the one behind its condition.
compile_if_block(b, c, stmt, i, tag_next, tag_end) ==
    LET n == Len(stmt.else_if_list)
        \* the weak context the block of a branch is compiled in
        Weak(j) ==
            IF j.err # "none" THEN j
            ELSE push_function_context(j, new_weak(get_current_function(j)))
        \* the condition is compiled: the JMPF past the branch
        Opened(j, tag_branch) ==
            IF j.err # "none" THEN j
            ELSE Weak(Branched(
                          push_instr(tag(j, tag_branch),
                              Instruction("JMPF",
                                  U8(get_last_register(j))
                                  \o U64(tag_branch))),
                          tag_end, i, get_current_offset(b)))
        End(j) ==
            IF j.err # "none" THEN j
            ELSE Chained(PatchAll(j, get_tag(j, tag_end),
                                  get_current_offset(j)),
                         tag_end)
        \* the first branch generated its tag ahead of the condition
        tagged == IF i = 0 \/ c.err # "none" THEN c ELSE generate(c)
        tag_branch == IF i = 0 THEN tag_next ELSE LastUid(tagged)
        Block ==
            CASE i = 0 -> stmt.block
              [] i <= n -> stmt.else_if_list[i][2]
              [] stmt.else_block = <<>> -> <<>>
              [] OTHER -> stmt.else_block[1]
        Done(blk) ==
            CASE b.err # "none" -> b
              [] i <= n ->
                    IF c.err # "none" THEN c
                    ELSE compile_if_branch(blk, stmt, i + 1, tag_branch,
                                           tag_end)
              [] stmt.else_block = <<>> -> End(b)
              [] OTHER -> End(compile_if_cleanup(blk))
    IN  Done(compile_stmt_list(
                 CASE i <= n -> Opened(tagged, tag_branch)
                   [] stmt.else_block = <<>> -> Weak(b)
                   [] OTHER -> Weak(Branched(b, tag_end, i,
                                             get_current_offset(b))),
                 Block))

\* Branch i of an if statement and the branches behind it; j is the
\* compiler behind the block of branch i - 1.
compile_if_branch(j, stmt, i, tag_next, tag_end) ==
    LET before ==
            IF i = 0 THEN j ELSE compile_if_leave(j, tag_next, tag_end)
    IN  compile_if_block(
            before,
            IF i > Len(stmt.else_if_list) THEN before
            ELSE compile_if_cond(before,
                     IF i = 0 THEN stmt.cond ELSE stmt.else_if_list[i][1]),
            stmt, i, tag_next, tag_end)

compile_if_stmt(k, stmt) ==
    IF k.err # "none" THEN k
    ELSE compile_if_branch(generate(generate(k)), stmt, 0,
                           LastUid(generate(generate(k))),
                           LastUid(generate(k)))

\* The loop context on top keeps pos_start and tag_end of the loop.
compile_while_stmt(k, stmt) ==
    LET Left(j, start, tag_end) ==
            IF j.err # "none" THEN j
            ELSE pop_function_context(
                     [PatchAll(j, get_tag(j, tag_end), get_current_offset(j))
                         EXCEPT !.loop_ctx_stack = Tail(@),
                                !.loops = Append(@,
                                    [start |-> start,
                                     end |-> get_current_offset(j)])])
        \* behind the block: the jump back, the patches, the contexts popped
        Leave(j) ==
            IF j.err # "none" THEN j
            ELSE Left(compile_continue_stmt(j),
                      j.loop_ctx_stack[1].pos_start,
                      j.loop_ctx_stack[1].tag_end)
        Jumped(j, tag_end) ==
            IF j.err # "none" THEN j
            ELSE push_instr(tag(j, tag_end),
                     Instruction("JMPF",
                         U8(get_last_register(j)) \o U64(tag_end)))
        \* c is the compiled condition
        Cond(j, c, cond_type) ==
            CASE j.err # "none" -> j
              [] IsErr(cond_type) -> Raise(j, cond_type[2])
              [] cond_type # TypeBool -> Raise(j, "TypeMismatch")
              [] OTHER -> Jumped(c, j.loop_ctx_stack[1].tag_end)
        \* ahead of the condition: the contexts of the loop
        Entered(j) ==
            IF j.err # "none" THEN j
            ELSE [generate(j) EXCEPT !.loop_ctx_stack =
                     <<[pos_start |-> get_current_offset(j),
                        tag_end |-> LastUid(generate(j))]>> \o @]
        entered ==
            Entered(push_function_context(k,
                        new_loop(get_current_function(k))))
    IN  Leave(compile_stmt_list(
                  Cond(entered, compile_expr(entered, stmt.cond),
                       check_expr_type(entered, stmt.cond)),
                  stmt.block))

\* codegen/def.rs, FunctionDef
FunctionDef(name, uid, ret_type, arguments) ==
    [name |-> name, uid |-> uid, ret_type |-> ret_type,
     arguments |-> arguments]

\* Compiler::canonize_type: a container is named by its canonical name.
RECURSIVE canonize_type(_, _)
canonize_type(containers, t) ==
    CASE t[1] = "Reference" /\ t[2] # "AutoArray" ->
            IF IsErr(canonize_type(containers, t[3]))
            THEN canonize_type(containers, t[3])
            ELSE Reference(canonize_type(containers, t[3]))
      [] t[1] = "Other" ->
            IF ContainerKey(containers, t[2]) = ""
            THEN TypeErr("UnknownContainer")
            ELSE Other("root::" \o ContainerKey(containers, t[2]))
      [] OTHER -> t

\* declare_fn_decl; a function declared inside an impl becomes a member
\* function of the container.
declare_fn_decl(k, decl) ==
    LET full_fn_name ==
            IF k.current_cont # ""
            THEN "root::" \o k.current_cont \o "::" \o decl.name
            ELSE "root::" \o decl.name
        arguments ==
            [i \in 1..Len(decl.arguments) |->
                <<decl.arguments[i][1],
                  canonize_type(k.containers, decl.arguments[i][2])>>]
        fn_def(j) ==
            FunctionDef(decl.name, j.uid_functions[full_fn_name],
                        decl.returns, arguments)
        Member(j, def) ==
            IF def.err # "none" THEN Raise(j, def.err)
            ELSE [j EXCEPT !.containers[k.current_cont] = def]
        Added(j) ==
            CASE \E i \in 1..Len(arguments) : IsErr(arguments[i][2]) ->
                    Raise(j, "UnknownContainer")
              [] k.current_cont # "" ->
                    IF k.current_cont \notin DOMAIN j.containers
                    THEN Raise(j, "UnknownContainer")
                    ELSE Member(j, add_member_function(
                                       j.containers[k.current_cont],
                                       fn_def(j)))
              [] decl.name \in DOMAIN j.functions ->
                    Raise(j, "DuplicateFunction")
              [] OTHER ->
                    [j EXCEPT !.functions = (decl.name :> fn_def(j)) @@ @]
        Mapped(j) ==
            Added([j EXCEPT !.fn_uid_map =
                      (full_fn_name :> j.uid_functions[full_fn_name]) @@ @])
    IN  IF k.err # "none" THEN k
        ELSE Mapped(get_function_uid(k, full_fn_name))

declare_cont_decl(k, decl) ==
    LET Merged(def) ==
            IF def.err # "none" THEN Raise(k, def.err)
            ELSE [k EXCEPT !.containers = (decl.name :> def) @@ @]
    IN  IF k.err # "none" THEN k
        ELSE IF decl.name \in DOMAIN k.containers
        THEN Merged(merge_cont_decl(k.containers[decl.name], decl.members))
        ELSE IF decl.name \in k.modules
        THEN Raise(k, "AlreadyContainsModule")
        ELSE Merged(from_decl(decl))

RECURSIVE declare_decl_list(_, _)

\* declare_impl_decl; current_cont is reset only when the list was declared
\* without an Err.
declare_impl_decl(k, decl) ==
    LET Declared(j) ==
            IF j.err # "none" THEN j ELSE [j EXCEPT !.current_cont = ""]
        Known(j) ==
            Declared(declare_decl_list(
                         [j EXCEPT !.current_cont = decl.impl_type],
                         decl.decl_list))
    IN  CASE k.err # "none" -> k
          [] decl.impl_type # decl.impl_for -> Raise(k, "Unimplemented")
          [] decl.impl_type \in DOMAIN k.containers -> Known(k)
          [] OTHER ->
                Known([k EXCEPT !.containers =
                          (decl.impl_type :> ContainerDef(decl.impl_type))
                          @@ @])

declare_decl_list(k, decl_list) ==
    IF decl_list = <<>> \/ k.err # "none" THEN k
    ELSE declare_decl_list(
             CASE Head(decl_list).d = "Function" ->
                     declare_fn_decl(k, Head(decl_list))
               [] Head(decl_list).d = "Impl" ->
                     declare_impl_decl(k, Head(decl_list))
               [] OTHER -> declare_cont_decl(k, Head(decl_list)),
             Tail(decl_list))

\* compile_fn_decl.  The context it pushes stays on fn_context_stack.
compile_fn_decl(k, decl) ==
    LET Halt(j, start) ==
            IF j.err # "none" THEN j
            ELSE [push_instr(j, Instruction("HALT", U8(1))) EXCEPT
                     !.bodies = Append(@,
                         [name |-> decl.name,
                          uid |-> j.functions[decl.name].uid,
                          ret_type |-> j.functions[decl.name].ret_type,
                          start |-> start,
                          halt |-> get_current_offset(j)])]
        \* behind the block: the RET of a void function, the HALT
        Returned(j, fn_ret_type) ==
            IF j.err # "none" THEN j
            ELSE Halt(IF fn_ret_type = TypeVoid
                      THEN compile_return_stmt(j, ReturnNone) ELSE j,
                      get_current_offset(k))
        \* blk is the compiled block of the function
        Found(blk, fn_def, fn_ctx) ==
            IF fn_ctx.err # "none" THEN Raise(k, fn_ctx.err)
            ELSE Returned(blk, fn_def.ret_type)
        Labelled(fn_ctx) ==
            push_function_context(
                push_label(k,
                    IF k.current_cont # ""
                    THEN "root::" \o k.current_cont \o "::" \o decl.name
                    ELSE "root::" \o decl.name),
                fn_ctx)
    IN  CASE k.err # "none" -> k
          [] resolve_function(k, decl.name) = <<>> ->
                Raise(k, "UnknownFunction")
          [] OTHER ->
                Found(compile_stmt_list(
                          Labelled(FunctionContextNew(k.containers,
                              resolve_function(k, decl.name)[1])),
                          decl.code_block),
                      resolve_function(k, decl.name)[1],
                      FunctionContextNew(k.containers,
                                         resolve_function(k, decl.name)[1]))

RECURSIVE compile_decl_list(_, _)

compile_impl_decl(k, decl) ==
    LET Compiled_(j) ==
            IF j.err # "none" THEN j ELSE [j EXCEPT !.current_cont = ""]
    IN  CASE k.err # "none" -> k
          [] decl.impl_type # decl.impl_for -> Raise(k, "Unimplemented")
          [] OTHER ->
                Compiled_(compile_decl_list(
                              [k EXCEPT !.current_cont = decl.impl_type],
                              decl.decl_list))

compile_decl_list(k, decl_list) ==
    IF decl_list = <<>> \/ k.err # "none" THEN k
    ELSE compile_decl_list(
             CASE Head(decl_list).d = "Function" ->
                     compile_fn_decl(k, Head(decl_list))
               [] Head(decl_list).d = "Impl" ->
                     compile_impl_decl(k, Head(decl_list))
               [] OTHER -> k,
             Tail(decl_list))

compile_root(k, decl_list) ==
    compile_decl_list(declare_decl_list(k, decl_list), decl_list)

\* api/function.rs: a Function as the host builds it.  closure names what
\* the host's closure does with the Adapter: "args" reads every argument,
\* "ret" reads them and calls return_value, "push" reads them and leaves a
\* composite result on top of the stack.
Function(name, arg_types, return_type, closure) ==
    [name |-> name, arg_types |-> arg_types, return_type |-> return_type,
     closure |-> closure, arg_offsets |-> <<>>, arg_sizes |-> <<>>]

\* api/module.rs
Module(name, functions) == [name |-> name, functions |-> functions]

\* register_foreign_function: offsets from the last argument to the first.
register_foreign_function(k, function, path) ==
    LET full_fn_name == "root::" \o path \o function.name
        n == Len(function.arg_types)
        arg_sizes == [i \in 1..n |->
                         get_size_of_type(k.containers, function.arg_types[i])]
        arg_offsets == [i \in 1..n |-> -SumSeq(SubSeq(arg_sizes, i, n))]
        Stored(j, fn_uid) ==
            [j EXCEPT
                !.fn_uid_map = (full_fn_name :> fn_uid) @@ @,
                !.foreign_function_uids = @ \cup {fn_uid},
                !.foreign_functions =
                    (fn_uid :> [function EXCEPT !.arg_offsets = arg_offsets,
                                                !.arg_sizes = arg_sizes])
                    @@ @,
                !.taken = FALSE]
        Defined(j, fn_uid) ==
            IF (path \o function.name) \in DOMAIN j.functions
            THEN Raise(j, "DuplicateFunction")
            ELSE [j EXCEPT !.functions =
                     ((path \o function.name) :>
                         FunctionDef(function.name, fn_uid,
                             function.return_type,
                             [i \in 1..n |-> <<"", function.arg_types[i]>>]))
                     @@ @]
        Sized(j) ==
            IF \E i \in 1..n : arg_sizes[i] < 0 THEN Raise(j, "UnknownType")
            ELSE Defined(Stored(j, j.uid_functions[full_fn_name]),
                         j.uid_functions[full_fn_name])
    IN  IF k.err # "none" THEN k
        ELSE IF n = 0 /\ k.checks THEN Raise(get_function_uid(k, full_fn_name),
                                             "Panic")
        ELSE Sized(get_function_uid(k, full_fn_name))

RECURSIVE RegisterAll(_, _, _)
RegisterAll(k, functions, path) ==
    IF functions = <<>> \/ k.err # "none" THEN k
    ELSE RegisterAll(register_foreign_function(k, Head(functions), path),
                     Tail(functions), path)

\* register_foreign_root_module, for a module without modules inside
register_foreign_module(k, module) ==
    LET Added(j) ==
            IF j.err # "none" THEN j
            ELSE IF module.name \in j.modules THEN Raise(j, "DuplicateModule")
            ELSE [j EXCEPT !.modules = @ \cup {module.name}]
    IN  Added(RegisterAll(k, module.functions, module.name \o "::"))

\* The operand of a jump that holds its address starts at this offset.
AddrOffset(instr) == IF instr.opcode = "JMP" THEN 0 ELSE 1

\* A rewrite that leaves every jump as the builder holds it.
RewriteNothing(instructions, jmp_instructions, data_len) == instructions

\* get_program rewrites every jump of a copy of the builder
RECURSIVE Rewrite(_, _, _)
Rewrite(instructions, jmp_instructions, data_len) ==
    IF jmp_instructions = <<>> THEN instructions
    ELSE Rewrite(
             [instructions EXCEPT ![Head(jmp_instructions) + 1] =
                 append_operand(remove_operand_bytes(@, 8),
                     U64(LeNat(get_operand(@, AddrOffset(@), 8)) + data_len))],
             Tail(jmp_instructions), data_len)

\* Compiler::get_program: <<the compiler after it, the Program>>
get_program(k) ==
    LET data_len == Len(k.bytes)
        native == {name \in DOMAIN k.fn_uid_map :
                     k.fn_uid_map[name] \notin k.foreign_function_uids}
        NameOf(uid) == CHOOSE name \in native : k.fn_uid_map[name] = uid
    IN  IF k.err # "none" THEN <<k, NoProgram>>
        ELSE IF \E name \in native : name \notin DOMAIN k.labels
        THEN <<Raise(k, "Unknown"), NoProgram>>
        ELSE IF k.taken THEN <<Raise(k, "Unknown"), NoProgram>>
        ELSE <<[k EXCEPT !.taken = TRUE, !.foreign_functions = <<>>],
               [some |-> TRUE,
                code |-> build(k.bytes,
                               Rewrite(k.instructions, k.jmp_instructions,
                                       data_len)),
                functions |->
                    [uid \in {k.fn_uid_map[name] : name \in native} |->
                        get_label_offset(k, NameOf(uid)) + data_len],
                foreign_functions |-> k.foreign_functions]>>

\* ------------------------------------------------------------------------
\* Hand-assembled programs, built as tests/core.rs builds its own.
\* ------------------------------------------------------------------------

StackCapacity == 64

\* test_core_addi
RawAddi ==
    << Instruction("LDI", U64(58) \o U8(0)),
       Instruction("LDI", U64(42) \o U8(1)),
       Instruction("LDA", U64(8) \o U8(2)),
       Instruction("ADDI", U8(0) \o U8(1) \o U8(0)),
       Instruction("ADDU", U8(16) \o U8(2) \o U8(16)),
       Instruction("MOVI_RA", U8(0) \o U8(16) \o I16(-8)) >>

SpOperands == {8, StackCapacity, StackCapacity + 8}

SpWriters ==
    {"ADDU", "SUBU", "MULU", "ADDU_I", "SUBU_I", "MULU_I", "LDA", "MOVA",
     "MOVA_AR"}

\* One instruction of each kind that can write register 16, with operand n,
\* after a frame of 8 bytes was pushed that holds n.
SpWrite(op, n) ==
    CASE op \in {"ADDU", "SUBU", "MULU"} ->
            Instruction(op, U8(16) \o U8(2) \o U8(16))
      [] op \in {"ADDU_I", "SUBU_I", "MULU_I"} ->
            Instruction(op, U8(16) \o U64(n) \o U8(16))
      [] op = "LDA" -> Instruction(op, U64(n) \o U8(16))
      [] op = "MOVA" -> Instruction(op, U8(2) \o U8(16))
      [] op = "MOVA_AR" -> Instruction(op, U8(16) \o I16(-8) \o U8(16))

RawSpWrite(op, n) ==
    << Instruction("LDA", U64(n) \o U8(2)),
       Instruction("ADDU_I", U8(16) \o U64(8) \o U8(16)),
       Instruction("MOVA_RA", U8(2) \o U8(16) \o I16(-8)),
       SpWrite(op, n),
       Instruction("RET", <<>>) >>

\* new_inc_stack(8), then an increment by 2^64 - 8, the usize that a
\* new_inc_stack(0 - 8) wraps to.
RawSpWrap ==
    << Instruction("ADDU_I", U8(16) \o U64(8) \o U8(16)),
       Instruction("ADDU_I", U8(16) \o U64(-8) \o U8(16)),
       Instruction("RET", <<>>) >>

\* Function 1 calls function 2 twice and returns; function 2 calls function
\* 3; function 3 returns when `last` is RET and halts when it is HALT.
RawCaller ==
    << Instruction("CALL", U64(2)),
       Instruction("CALL", U64(2)),
       Instruction("RET", <<>>) >>

RawMiddle ==
    << Instruction("CALL", U64(3)),
       Instruction("RET", <<>>) >>

RawLeaf(last) ==
    << Instruction("LDI", U64(5) \o U8(0)),
       IF last = "RET" THEN Instruction("RET", <<>>)
       ELSE Instruction("HALT", U8(1)) >>

RawCalls(last) ==
    ProgramOf(build(<<>>, RawCaller \o RawMiddle \o RawLeaf(last)),
              (1 :> 0)
              @@ (2 :> SizeBefore(RawCaller, Len(RawCaller)))
              @@ (3 :> SizeBefore(RawCaller \o RawMiddle,
                                  Len(RawCaller \o RawMiddle))))

\* The programs a host loads directly into a Core: test_core_addi, the image
\* of test_push_pop_stack (the 8 bytes of an i64), the SP writers, the calls,
\* the two increments.
RawPrograms ==
    {ProgramOf(build(<<>>, RawAddi), <<>>), ProgramOf(U64(4), <<>>)}
    \cup {ProgramOf(build(<<>>, RawSpWrite(op, n)), <<>>) :
             op \in SpWriters, n \in SpOperands}
    \cup {RawCalls(last) : last \in {"RET", "HALT"}}
    \cup {ProgramOf(build(<<>>, RawSpWrap), <<>>)}

\* ------------------------------------------------------------------------
\* The scripts a host loads, as the trees the parser hands over, and the
\* modules it registers.
\* ------------------------------------------------------------------------

\* The token "ab"
TokenAb == <<34, 97, 98, 34>>

\* fn: g() ~ int { }
\* fn: v() { var a = 1; }
\* fn: main() ~ int { var x = 1; v(); return g(); }
\* fn: h() ~ int { if true { return 1; } return 2; }
SourceFallthrough ==
    << FunctionDecl("g", <<>>, TypeInt, <<>>),
       FunctionDecl("v", <<>>, TypeVoid,
           <<VariableDecl("a", IntLiteral(1))>>),
       FunctionDecl("main", <<>>, TypeInt,
           <<VariableDecl("x", IntLiteral(1)),
             Expression(Call("v", <<>>)),
             Return(Call("g", <<>>))>>),
       FunctionDecl("h", <<>>, TypeInt,
           <<If(BoolLiteral(TRUE), <<Return(IntLiteral(1))>>, <<>>, <<>>),
             Return(IntLiteral(2))>>) >>

\* fn: add(a: int, b: int) ~ int { return a + b; }
\* fn: s(a: int) ~ string { var l = a; return "ab"; }
\* fn: main() ~ int {
\*     var t = s(1); std::print(s(2)); std::printi(add(1, 2));
\*     var n = std::name(3); return add(std::geti(4), 5);
\* }
SourceCalls ==
    << FunctionDecl("add", <<<<"a", TypeInt>>, <<"b", TypeInt>>>>, TypeInt,
           <<Return(Binary("Addition", Variable("a"), Variable("b")))>>),
       FunctionDecl("s", <<<<"a", TypeInt>>>>, TypeString,
           <<VariableDecl("l", Variable("a")),
             Return(StringLiteral(TokenAb))>>),
       FunctionDecl("main", <<>>, TypeInt,
           <<VariableDecl("t", Call("s", <<IntLiteral(1)>>)),
             Expression(Call("std::print", <<Call("s", <<IntLiteral(2)>>)>>)),
             Expression(Call("std::printi",
                 <<Call("add", <<IntLiteral(1), IntLiteral(2)>>)>>)),
             VariableDecl("n", Call("std::name", <<IntLiteral(3)>>)),
             Return(Call("add",
                 <<Call("std::geti", <<IntLiteral(4)>>),
                   IntLiteral(5)>>))>>) >>

\* fn: main() ~ int {
\*     var x = 0;
\*     while x < 3 {
\*         var i = 0;
\*         while i < 2 {
\*             std::print("ab"); i += 1;
\*             if i == 1 { continue; }
\*             break;
\*         }
\*         if x == 1 { x += 1; continue; }
\*         else if x == 2 { var z = 0; break; }
\*         else { var y = 0; }
\*         x += 1;
\*     }
\*     return x;
\* }
SourceLoops ==
    << FunctionDecl("main", <<>>, TypeInt,
           <<VariableDecl("x", IntLiteral(0)),
             While(Binary("LessThan", Variable("x"), IntLiteral(3)),
                 <<VariableDecl("i", IntLiteral(0)),
                   While(Binary("LessThan", Variable("i"), IntLiteral(2)),
                       <<Expression(Call("std::print",
                                         <<StringLiteral(TokenAb)>>)),
                         Expression(Binary("AddAssign", Variable("i"),
                                           IntLiteral(1))),
                         If(Binary("Equals", Variable("i"), IntLiteral(1)),
                            <<Continue>>, <<>>, <<>>),
                         Break>>),
                   If(Binary("Equals", Variable("x"), IntLiteral(1)),
                      <<Expression(Binary("AddAssign", Variable("x"),
                                          IntLiteral(1))),
                        Continue>>,
                      << <<Binary("Equals", Variable("x"), IntLiteral(2)),
                           <<VariableDecl("z", IntLiteral(0)), Break>>>> >>,
                      << <<VariableDecl("y", IntLiteral(0))>> >>),
                   Expression(Binary("AddAssign", Variable("x"),
                                     IntLiteral(1)))>>),
             Return(Variable("x"))>>) >>

\* fn: deep() ~ int {
\*     var x = 0;
\*     while x < 2 { if x == 1 { return x; } x += 1; }
\*     return x;
\* }
SourceDeep ==
    << FunctionDecl("deep", <<>>, TypeInt,
           <<VariableDecl("x", IntLiteral(0)),
             While(Binary("LessThan", Variable("x"), IntLiteral(2)),
                 <<If(Binary("Equals", Variable("x"), IntLiteral(1)),
                      <<Return(Variable("x"))>>, <<>>, <<>>),
                   Expression(Binary("AddAssign", Variable("x"),
                                     IntLiteral(1)))>>),
             Return(Variable("x"))>>) >>

\* cont: P { y: int; a: float; }
\* cont: Q { b: bool; x: P; }
\* cont: P { b: bool; }
\* fn: main() { }
SourceContainers ==
    << ContainerDecl("P", <<<<"y", TypeInt>>, <<"a", TypeFloat>>>>),
       ContainerDecl("Q", <<<<"b", TypeBool>>, <<"x", Other("P")>>>>),
       ContainerDecl("P", <<<<"b", TypeBool>>>>),
       FunctionDecl("main", <<>>, TypeVoid, <<>>) >>

\* The f32 2.0 and 1.0, as their bytes.
Float2 == <<0, 0, 0, 64>>
Float1 == <<0, 0, 128, 63>>

VectorDecl ==
    ContainerDecl("Vector", <<<<"x", TypeFloat>>, <<"y", TypeFloat>>>>)

VectorInstance ==
    ContainerInstance("Vector",
        ("x" :> FloatLiteral(Float2)) @@ ("y" :> FloatLiteral(Float1)))

\* test_compile_member_call:
\* cont: Vector { x: float; y: float; }
\* impl: Vector { fn: get_x(&this) ~ float { return this.x; } }
\* fn: main() { var vec = Vector { x: 2.0, y: 1.0 }; var x = vec.get_x(); }
SourceMember ==
    << VectorDecl,
       ImplDecl("Vector", "Vector",
           <<FunctionDecl("get_x",
                 <<<<"this", Reference(Other("Vector"))>>>>, TypeFloat,
                 <<Return(MemberAccess(Variable("this"), Variable("x")))>>)>>),
       FunctionDecl("main", <<>>, TypeVoid,
           <<VariableDecl("vec", VectorInstance),
             VariableDecl("x",
                 MemberAccess(Variable("vec"), Call("get_x", <<>>)))>>) >>

\* cont: Vector { x: float; y: float; }
\* fn: main() { var vec = Vector { x: 2.0, y: 1.0 }; var x = vec.x; }
SourceField ==
    << VectorDecl,
       FunctionDecl("main", <<>>, TypeVoid,
           <<VariableDecl("vec", VectorInstance),
             VariableDecl("x",
                 MemberAccess(Variable("vec"), Variable("x")))>>) >>

\* fn: main() { var a = 5; var f = 2.0; var b = true; a = a; f = f; b = b; }
SourceAssignPrimitive ==
    << FunctionDecl("main", <<>>, TypeVoid,
           <<VariableDecl("a", IntLiteral(5)),
             VariableDecl("f", FloatLiteral(Float2)),
             VariableDecl("b", BoolLiteral(TRUE)),
             Expression(Binary("Assign", Variable("a"), Variable("a"))),
             Expression(Binary("Assign", Variable("f"), Variable("f"))),
             Expression(Binary("Assign", Variable("b"), Variable("b")))>>) >>

\* cont: Vector { x: float; y: float; }
\* fn: main() { var v = Vector { x: 2.0, y: 1.0 }; var r = &v; v = v; r = r; }
SourceAssignContainer ==
    << VectorDecl,
       FunctionDecl("main", <<>>, TypeVoid,
           <<VariableDecl("v", VectorInstance),
             VariableDecl("r", Ref(Variable("v"))),
             Expression(Binary("Assign", Variable("v"), Variable("v"))),
             Expression(Binary("Assign", Variable("r"), Variable("r")))>>) >>

\* fn: main() { var o = 7; var s: &[int] = "ab"; s = s; o = o; }
SourceAssignSlice ==
    << FunctionDecl("main", <<>>, TypeVoid,
           <<VariableDecl("o", IntLiteral(7)),
             VariableDeclOf("s", Reference(AutoArray(TypeInt)),
                            StringLiteral(TokenAb)),
             Expression(Binary("Assign", Variable("s"), Variable("s"))),
             Expression(Binary("Assign", Variable("o"), Variable("o")))>>) >>

\* fn: main() { std::put(1, 2.0, 3); }
SourceForeignArgs ==
    << FunctionDecl("main", <<>>, TypeVoid,
           <<Expression(Call("std::put",
                 <<IntLiteral(1), FloatLiteral(Float2), IntLiteral(3)>>))>>) >>

Sources ==
    <<SourceFallthrough, SourceCalls, SourceLoops, SourceDeep,
      SourceContainers, SourceMember, SourceField, SourceAssignPrimitive,
      SourceAssignContainer, SourceAssignSlice, SourceForeignArgs>>

\* The module std, and a module whose one function takes no argument.
StdModule ==
    Module("std",
        << Function("printi", <<TypeInt>>, TypeVoid, "args"),
           Function("print", <<TypeString>>, TypeVoid, "args"),
           Function("geti", <<TypeInt>>, TypeInt, "ret"),
           Function("name", <<TypeInt>>, TypeString, "push"),
           Function("put", <<TypeInt, TypeFloat, TypeInt>>, TypeVoid,
                    "args") >>)

SysModule == Module("sys", <<Function("now", <<>>, TypeInt, "ret")>>)

Modules == <<StdModule, SysModule>>

\* ------------------------------------------------------------------------
\* The state: a Core (vm/core.rs) and a Compiler inside an Engine
\* (engine/mod.rs), the host calling into it, and a run in progress.
\*   compiler  Engine::compiler
\*   running   a run_at loop is between two instructions
\*   run_res   what the last run returned ("Running" while it runs)
\*   host_res  what the last call of the host other than a run returned
\*   profile   the build: "debug" carries overflow checks, "release" wraps
\*   source    the index in Sources of the script loaded, 0 when none
\*   frames    history: one record per function entered and not yet left
\*             in this run, innermost first: uid, SP at entry, return ip,
\*             and marks, one per call sequence and while statement of the
\*             function that control is inside of (the SP it was entered
\*             with; for a call, what the callee handed back)
\*   entry     history: the uid the last run started at, the stack size then
\*   host_ops  the number of host calls made
\*   foreign_pointers  Core::foreign_pointers: handle -> the object boxed
\*   ptr_res   the last call on the foreign pointers: its number, which it
\*             was, the handle passed or returned, the object passed or
\*             returned
\*   live      history: the entries inserted and not removed since, each
\*             with the number of the call that inserted it
\*   removed   history: the handles that a remove has returned Ok for
\*   popped    the last pop_stack: its type, the value it returned
\*   last_push history: the last push_stack: its type, the value pushed, SP
\*             before it, and whether no pop_stack has followed it
\*   addr_call an address being worked out: the raw word and the offset
\*             given, how far it got ("from": Address::from was applied,
\*             "offset": with_offset too), the Address so far
\* ------------------------------------------------------------------------

VARIABLES stack, swap, sp, ip, registers, call_stack, program,
          foreign_function_uids, compiler, running, run_res, host_res,
          profile, source, frames, entry, host_ops, foreign_pointers,
          ptr_res, live, removed, popped, last_push, addr_call

ptrVars == <<foreign_pointers, ptr_res, live, removed>>

\* What only the host's calls on the foreign pointers and on the stack set.
hostVars == <<ptrVars, popped, last_push, addr_call>>

coreVars ==
    <<stack, swap, sp, ip, registers, call_stack, program,
      foreign_function_uids, hostVars>>

ghostVars == <<frames, entry>>

vars ==
    <<stack, swap, sp, ip, registers, call_stack, program,
      foreign_function_uids, compiler, running, run_res, host_res, profile,
      source, frames, entry, host_ops, foreign_pointers, ptr_res, live,
      removed, popped, last_push, addr_call>>

\* Core::get_stack_size (defined while SP carries a tag below 5)
get_stack_size == ToIndex(AddressFrom(sp).real_address)

CoreRec(ub) ==
    [stack |-> stack, swap |-> swap, sp |-> sp, ip |-> ip,
     registers |-> registers, call_stack |-> call_stack,
     program |-> program, foreign_function_uids |-> foreign_function_uids,
     err |-> "none", brk |-> FALSE, checks |-> profile = "debug", ub |-> ub]

MaxHostOps == 4

Panicked == run_res = "Panic" \/ host_res = "Panic"

\* The host may call into the engine: no run is in progress, no panic has
\* unwound through it, and the bound on host calls is not reached.
HostReady == ~running /\ ~Panicked /\ host_ops < MaxHostOps

\* The objects a host hands over behind an Arc, and no object.
Items == {"O1", "O2"}

NoItem == "none"

\* HashMap::new()
NoPointers == [h \in {} |-> NoItem]

\* Core::new(StackCapacity)
InitCore ==
    /\ stack = Zeros(StackCapacity)
    /\ swap = Zeros(SWAP_SPACE_SIZE)
    /\ sp = AddressNew(Zeros(8), StackTag).raw_address
    /\ ip = 0
    /\ registers = [r \in 0..15 |-> Zeros(8)]
    /\ call_stack = <<>>
    /\ program = NoProgram
    /\ foreign_function_uids = {}
    /\ foreign_pointers = NoPointers

\* Core::load_program
load_program(p) ==
    /\ foreign_function_uids' = DOMAIN p.foreign_functions
    /\ program' = p
    /\ UNCHANGED <<stack, swap, sp, ip, registers, call_stack, hostVars>>

\* A host that drives a Core directly loads one hand-assembled program.
LoadRaw ==
    /\ HostReady
    /\ ~program.some
    /\ source = 0
    /\ \E p \in RawPrograms : load_program(p)
    /\ host_ops' = host_ops + 1
    /\ UNCHANGED <<compiler, running, run_res, host_res, profile, source,
                   frames, entry>>

\* What a call into the compiler returned to the host.
HostResult(k) ==
    IF k.err = "none" THEN "Ok"
    ELSE IF k.err = "Panic" THEN "Panic"
    ELSE "CompileError"

\* The compiler the engine is left with.
Kept(k) == [k EXCEPT !.err = "none"]

\* Engine::register_module; a host registers a module once.
register_module(module) ==
    /\ compiler' = Kept(register_foreign_module(compiler, module))
    /\ host_res' = HostResult(register_foreign_module(compiler, module))

RegisterModule ==
    /\ HostReady
    /\ \E i \in 1..Len(Modules) :
          /\ Modules[i].name \notin compiler.modules
          /\ register_module(Modules[i])
    /\ host_ops' = host_ops + 1
    /\ UNCHANGED <<coreVars, running, run_res, profile, source, frames,
                   entry>>

\* The compiler a load_code that failed leaves: no error is pending, and
\* the history holds the indices of the instructions it had pushed to the
\* builder.
KeptDropped(k) ==
    [k EXCEPT !.err = "none",
              !.dropped = @ \cup (Len(compiler.instructions) + 1)
                                  ..Len(k.instructions)]

\* Engine::load_code on the declarations parsed; r is what get_program,
\* called on the compiler after compile_root, returned.
load_code(r) ==
    /\ compiler' = IF r[1].err = "none" THEN Kept(r[1]) ELSE KeptDropped(r[1])
    /\ host_res' = HostResult(r[1])
    /\ IF r[1].err = "none" THEN load_program(r[2]) ELSE UNCHANGED coreVars

\* A host loads one script into an engine.
LoadCode ==
    /\ HostReady
    /\ ~program.some
    /\ source = 0
    /\ \E i \in 1..Len(Sources) :
          /\ load_code(get_program(compile_root(compiler, Sources[i])))
          /\ source' = i
    /\ host_ops' = host_ops + 1
    /\ UNCHANGED <<running, run_res, profile, frames, entry>>

\* A host loads a script into an engine that holds no program: the first,
\* or the next after one that failed to compile.
Reload ==
    /\ HostReady
    /\ ~program.some
    /\ \E i \in 1..Len(Sources) :
          /\ load_code(get_program(compile_root(compiler, Sources[i])))
          /\ source' = i
    /\ host_ops' = host_ops + 1
    /\ UNCHANGED <<running, run_res, profile, frames, entry>>

\* The offset in the builder's instruction stream of the image offset at.
BuilderOffset(at) == at - Len(compiler.bytes)

StackSizeOf(raw) == ToIndex(AddressFrom(raw).real_address)

MarkEnd(m) ==
    IF m.kind = "call" THEN compiler.calls[m.id].end
    ELSE compiler.loops[m.id].end

\* Control is at the builder offset off with a stack of `size` bytes: the
\* call sequences and the while statements that start there are entered (a
\* while statement that control is already inside of is not entered again).
Opened(marks, off, size) ==
    marks
    \cup {[kind |-> "call", id |-> i, sp |-> size, ret |-> <<>>] :
             i \in {i \in 1..Len(compiler.calls) :
                       compiler.calls[i].start = off}}
    \cup {[kind |-> "loop", id |-> i, sp |-> size, ret |-> <<>>] :
             i \in {i \in 1..Len(compiler.loops) :
                       /\ compiler.loops[i].start = off
                       /\ ~\E m \in marks : m.kind = "loop" /\ m.id = i}}

\* Control leaves the builder offset off: what ended there is left.
Closed(marks, off) == {m \in marks : MarkEnd(m) # off}

\* The CALL at builder offset at has come back with the core d: its call
\* sequence holds what the callee handed back.
WithRet(marks, at, d) ==
    {IF m.kind = "call" /\ compiler.calls[m.id].at = at
     THEN [m EXCEPT !.ret =
              IF ~compiler.calls[m.id].composite THEN d.registers[0]
              ELSE IF StackSizeOf(d.sp) < compiler.calls[m.id].ret_size
                      \/ StackSizeOf(d.sp) > Len(d.stack)
              THEN <<>>
              ELSE SubSeq(d.stack,
                          StackSizeOf(d.sp) - compiler.calls[m.id].ret_size
                          + 1,
                          StackSizeOf(d.sp))]
     ELSE m : m \in marks}

\* Core::run_at up to the first test of the loop condition.
run_at(offset, uid) ==
    /\ ip' = offset
    /\ running' = program.some
    /\ run_res' = IF program.some THEN "Running" ELSE "Unknown"
    /\ frames' = IF program.some /\ AddressFrom(sp).address_type <= 4
                 THEN <<[uid |-> uid, sp |-> get_stack_size, ret |-> -1,
                         marks |-> Opened({}, BuilderOffset(offset),
                                          get_stack_size)]>>
                 ELSE <<>>
    /\ entry' = [uid |-> uid,
                 size |-> IF AddressFrom(sp).address_type <= 4
                          THEN get_stack_size ELSE -1]
    /\ host_ops' = host_ops + 1
    /\ UNCHANGED <<stack, swap, sp, registers, call_stack, program,
                   foreign_function_uids, compiler, host_res, profile,
                   source, hostVars>>

\* Core::run
Run == HostReady /\ run_at(0, 0)

UnknownUid == 9

\* Core::run_fn, Engine::run_fn
run_fn(uid) ==
    IF program.some /\ uid \in DOMAIN program.functions
    THEN run_at(program.functions[uid], uid)
    ELSE /\ run_res' = "NoProgram"
         /\ host_ops' = host_ops + 1
         /\ UNCHANGED <<coreVars, compiler, running, host_res, profile,
                        source, frames, entry>>

RunFn ==
    /\ HostReady
    /\ \E uid \in DOMAIN program.functions \cup {UnknownUid} : run_fn(uid)

\* A native CALL was executed: the call stack grew.
Called(c, f, d) ==
    f.op = "CALL" /\ d.err = "none" /\ Len(d.call_stack) > Len(c.call_stack)

\* A CALL was executed that ran a foreign function.
CalledForeign(c, f, d) ==
    f.op = "CALL" /\ d.err = "none" /\ Len(d.call_stack) = Len(c.call_stack)

\* A RET was executed that popped the call stack.
Returned(c, f, d) ==
    f.op = "RET" /\ d.err = "none" /\ ~d.brk

\* The marks of the frame on top when control went from c.ip to d.ip
\* inside it.
Moved(marks, c, f, d) ==
    Opened(Closed(IF CalledForeign(c, f, d)
                  THEN WithRet(marks, BuilderOffset(c.ip), d)
                  ELSE marks,
                  BuilderOffset(c.ip)),
           BuilderOffset(d.ip), StackSizeOf(d.sp))

\* The frames after a RET into the frame below.
Popped_(below, d) ==
    IF below = <<>> THEN <<>>
    ELSE <<[Head(below) EXCEPT !.marks =
               Opened(WithRet(@, BuilderOffset(d.ip) - 9, d),
                      BuilderOffset(d.ip), StackSizeOf(d.sp))]>>
         \o Tail(below)

\* The history after the instruction f took the core from c to d.
Observe(c, f, d) ==
    frames' = IF d.err # "none" \/ d.brk THEN frames
              ELSE IF Called(c, f, d)
              THEN <<[uid |-> ToIndex(f.o[1]),
                      sp |-> StackSizeOf(d.sp),
                      ret |-> f.next,
                      marks |-> Opened({}, BuilderOffset(d.ip),
                                       StackSizeOf(d.sp))]>>
                   \o (IF frames = <<>> THEN <<>>
                       ELSE <<[Head(frames) EXCEPT !.marks =
                                  Closed(@, BuilderOffset(c.ip))]>>
                            \o Tail(frames))
              ELSE IF Returned(c, f, d)
              THEN (IF frames = <<>> THEN <<>> ELSE Popped_(Tail(frames), d))
              ELSE IF frames = <<>> THEN frames
              ELSE <<[Head(frames) EXCEPT !.marks = Moved(@, c, f, d)]>>
                   \o Tail(frames)

\* The core d after one pass of run_at's loop becomes the state; an error
\* or the break of RET ends the run.
Commit(c, f, d) ==
    /\ stack' = d.stack
    /\ swap' = d.swap
    /\ sp' = d.sp
    /\ ip' = d.ip
    /\ registers' = d.registers
    /\ call_stack' = d.call_stack
    /\ program' = d.program
    /\ foreign_function_uids' = d.foreign_function_uids
    /\ running' = (d.err = "none" /\ ~d.brk)
    /\ run_res' = IF d.err # "none" THEN d.err
                  ELSE IF d.brk THEN "Ok" ELSE run_res
    /\ Observe(c, f, d)
    /\ UNCHANGED <<compiler, host_res, profile, source, entry, host_ops,
                   hostVars>>

StepFrom(c) == Commit(c, Fetch(c), Exec(c))

\* One pass of the loop of run_at: ip < program_len, one instruction.
Step ==
    /\ running
    /\ ip < Len(program.code)
    /\ \E ub \in BOOLEAN : StepFrom(CoreRec(ub))

\* The loop condition of run_at fails: Ok(()).
RunEnd ==
    /\ running
    /\ ip >= Len(program.code)
    /\ running' = FALSE
    /\ run_res' = "Ok"
    /\ UNCHANGED <<coreVars, compiler, host_res, profile, source, frames,
                   entry, host_ops>>

\* The primitive types a host pushes and pops: bool, i64, f32, and u64 for
\* an address.  A float and an address are kept as their words.
PrimTypes == {"Bool", "Int", "Float", "Address"}

\* A value of one of them, and no value.
BoolValue(b) == [some |-> TRUE, b |-> b, i |-> 0, w |-> <<>>]

IntValue(i) == [some |-> TRUE, b |-> FALSE, i |-> i, w |-> <<>>]

WordValue(w) == [some |-> TRUE, b |-> FALSE, i |-> 0, w |-> w]

NoValue == [some |-> FALSE, b |-> FALSE, i |-> 0, w |-> <<>>]

\* size_of::<T>()
size_of(t) ==
    CASE t = "Bool" -> 1
      [] t = "Float" -> 4
      [] OTHER -> 8

\* bincode's serialize
serialize(t, v) ==
    CASE t = "Bool" -> <<BoolByte(v.b)>>
      [] t = "Int" -> LeBytes(v.i, 8)
      [] OTHER -> v.w

\* An i64 within 24 bits read back from its word, else HugeIndex.
FromI64(bs) ==
    IF \A i \in 4..8 : bs[i] = 0 THEN LeNat(SubSeq(bs, 1, 3))
    ELSE IF \A i \in 4..8 : bs[i] = 255
    THEN LeNat(SubSeq(bs, 1, 3)) - 16777216
    ELSE HugeIndex

\* bincode's deserialize: a bool byte other than 0 and 1 is an error.
deserialize(t, bs) ==
    CASE t = "Bool" -> [ok |-> bs[1] \in {0, 1}, v |-> BoolValue(bs[1] = 1)]
      [] t = "Int" -> [ok |-> TRUE, v |-> IntValue(FromI64(bs))]
      [] OTHER -> [ok |-> TRUE, v |-> WordValue(bs)]

\* Core::push_stack::<T>, Engine::push_stack
Pushed(a, bytes) ==
    IF a.panic \/ ToIndex(a.real_address) + Len(bytes) > Len(stack)
    THEN /\ host_res' = "Panic"
         /\ UNCHANGED <<stack, sp>>
    ELSE /\ host_res' = "Ok"
         /\ stack' = WriteAt(stack, ToIndex(a.real_address), bytes)
         /\ sp' = Add64(sp, U64(Len(bytes))).v

push_stack(t, v) ==
    /\ Pushed(AddressFrom(sp), serialize(t, v))
    /\ last_push' = [t |-> t, v |-> v, sp |-> sp, fresh |-> TRUE]
    /\ host_ops' = host_ops + 1
    /\ UNCHANGED <<swap, ip, registers, call_stack, program,
                   foreign_function_uids, compiler, running, run_res,
                   profile, source, frames, entry, ptrVars, popped,
                   addr_call>>

PushStack == HostReady /\ \E v \in {4, 6} : push_stack("Int", IntValue(v))

\* pop_stack: source_addr = sp_addr.real_address - op_size
SourceAddrAtSp(a, n) == ToIndex(a.real_address)

source_addr(a, n) == ToIndex(a.real_address) - n

PopFault(t, e) ==
    /\ host_res' = e
    /\ sp' = sp
    /\ popped' = [t |-> t, v |-> NoValue]

\* Core::pop_stack::<T>, Engine::pop_stack
Popped(a, t, at) ==
    IF a.panic THEN PopFault(t, "Panic")
    ELSE IF ToIndex(sp) < size_of(t) THEN PopFault(t, "InvalidStackPointer")
    ELSE IF at < 0 \/ at + size_of(t) > Len(stack) THEN PopFault(t, "Panic")
    ELSE /\ sp' = Sub64(sp, U64(size_of(t))).v
         /\ host_res' =
               IF deserialize(t, SubSeq(stack, at + 1, at + size_of(t))).ok
               THEN "Ok" ELSE "Unknown"
         /\ popped' =
               [t |-> t,
                v |-> IF deserialize(t, SubSeq(stack, at + 1,
                                               at + size_of(t))).ok
                      THEN deserialize(t, SubSeq(stack, at + 1,
                                                 at + size_of(t))).v
                      ELSE NoValue]

pop_stack(t) ==
    /\ Popped(AddressFrom(sp), t, source_addr(AddressFrom(sp), size_of(t)))
    /\ last_push' = [last_push EXCEPT !.fresh = FALSE]
    /\ host_ops' = host_ops + 1
    /\ UNCHANGED <<stack, swap, ip, registers, call_stack, program,
                   foreign_function_uids, compiler, running, run_res,
                   profile, source, frames, entry, ptrVars, addr_call>>

PopStack == HostReady /\ pop_stack("Int")

\* ------------------------------------------------------------------------
\* vm/core.rs: the foreign pointers.  UIDGenerator::generate returns any
\* rng.next_u64(); these stand for it: two small values, 2^61 - 1, 2^61,
\* 2^63 and 2^64 - 1.
\* ------------------------------------------------------------------------

ForeignUids ==
    {<<1, 0, 0, 0, 0, 0, 0, 0>>, <<2, 0, 0, 0, 0, 0, 0, 0>>,
     <<255, 255, 255, 255, 255, 255, 255, 31>>,
     <<0, 0, 0, 0, 0, 0, 0, 32>>, <<0, 0, 0, 0, 0, 0, 0, 128>>,
     <<255, 255, 255, 255, 255, 255, 255, 255>>}

\* The handles a host passes: what Address::new makes of the uids.
ForeignHandles == {AddressNew(uid, ForeignTag).raw_address : uid \in ForeignUids}

\* foreign_pointers.contains_key(&addr.raw_address)
ContainsKeyNever(pointers, ptr) == FALSE

contains_key(pointers, ptr) == ptr \in DOMAIN pointers

\* foreign_pointers.insert(ptr, arc_box_int)
Inserted(pointers, ptr, item) ==
    [h \in DOMAIN pointers \cup {ptr} |->
        IF h = ptr THEN item ELSE pointers[h]]

\* foreign_pointers.remove(&ptr)
Removed(pointers, ptr) == [h \in DOMAIN pointers \ {ptr} |-> pointers[h]]

PtrCall(op, ptr, item) ==
    [n |-> ptr_res.n + 1, op |-> op, ptr |-> ptr, item |-> item]

\* Core::insert_foreign_ptr with addr the Address::new of the uid that
\* ended the loop, or the one whose addition overflowed under overflow
\* checks.
insert_foreign_ptr(addr, item) ==
    IF addr.ovf /\ profile = "debug"
    THEN /\ host_res' = "Panic"
         /\ ptr_res' = PtrCall("insert", Zeros(8), item)
         /\ UNCHANGED <<foreign_pointers, live, removed>>
    ELSE /\ ~contains_key(foreign_pointers, addr.raw_address)
         /\ foreign_pointers' =
                Inserted(foreign_pointers, addr.raw_address, item)
         /\ host_res' = "Ok"
         /\ ptr_res' = PtrCall("insert", addr.raw_address, item)
         /\ live' = live \cup {[handle |-> addr.raw_address, item |-> item,
                                 n |-> ptr_res.n + 1]}
         /\ UNCHANGED removed

\* Core::get_foreign_ptr
get_foreign_ptr(ptr) ==
    /\ host_res' = IF ptr \in DOMAIN foreign_pointers THEN "Ok" ELSE "Unknown"
    /\ ptr_res' = PtrCall("get", ptr,
                          IF ptr \in DOMAIN foreign_pointers
                          THEN foreign_pointers[ptr] ELSE NoItem)
    /\ UNCHANGED <<foreign_pointers, live, removed>>

\* Core::remove_foreign_ptr
remove_foreign_ptr(ptr) ==
    IF ptr \in DOMAIN foreign_pointers
    THEN /\ foreign_pointers' = Removed(foreign_pointers, ptr)
         /\ host_res' = "Ok"
         /\ ptr_res' = PtrCall("remove", ptr, foreign_pointers[ptr])
         /\ live' = {e \in live : e.handle # ptr}
         /\ removed' = removed \cup {ptr}
    ELSE /\ host_res' = "Unknown"
         /\ ptr_res' = PtrCall("remove", ptr, NoItem)
         /\ UNCHANGED <<foreign_pointers, live, removed>>

\* What a call on the foreign pointers leaves alone.
PtrFrame ==
    /\ host_ops' = host_ops + 1
    /\ UNCHANGED <<stack, swap, sp, ip, registers, call_stack, program,
                   foreign_function_uids, compiler, running, run_res,
                   profile, source, frames, entry, popped, last_push,
                   addr_call>>

InsertForeignPtr ==
    /\ HostReady
    /\ \E uid \in ForeignUids, item \in Items :
          insert_foreign_ptr(AddressNew(uid, ForeignTag), item)
    /\ PtrFrame

GetForeignPtr ==
    /\ HostReady
    /\ \E ptr \in ForeignHandles : get_foreign_ptr(ptr)
    /\ PtrFrame

RemoveForeignPtr ==
    /\ HostReady
    /\ \E ptr \in ForeignHandles : remove_foreign_ptr(ptr)
    /\ PtrFrame

\* Engine::new around the core, and a host that has called nothing.
InitEngine ==
    /\ running = FALSE
    /\ run_res = "none"
    /\ host_res = "none"
    /\ profile \in {"debug", "release"}
    /\ compiler = CompilerNew(profile = "debug")
    /\ source = 0
    /\ frames = <<>>
    /\ entry = [uid |-> 0, size |-> 0]
    /\ host_ops = 0
    /\ ptr_res = [n |-> 0, op |-> "none", ptr |-> Zeros(8), item |-> NoItem]
    /\ live = {}
    /\ removed = {}
    /\ popped = [t |-> "none", v |-> NoValue]
    /\ last_push = [t |-> "none", v |-> NoValue, sp |-> Zeros(8),
                    fresh |-> FALSE]

NoAddrCall ==
    [raw |-> Zeros(8), offset |-> 0, stage |-> "none",
     out |-> AddressFrom(Zeros(8))]

Init ==
    /\ InitCore
    /\ InitEngine
    /\ addr_call = NoAddrCall

Next ==
    \/ LoadRaw
    \/ RegisterModule
    \/ LoadCode
    \/ Run
    \/ RunFn
    \/ Step
    \/ RunEnd
    \/ PushStack
    \/ PopStack

Spec == Init /\ [][Next]_vars

\* A host that only keeps foreign pointers in a Core.
NextForeign ==
    \/ InsertForeignPtr
    \/ GetForeignPtr
    \/ RemoveForeignPtr

SpecForeign == Init /\ [][NextForeign]_vars

\* A host that only pushes and pops primitives.  The core it starts with
\* has been left with `size` bytes on the stack, under an SP that carries
\* the Stack tag or, written by a program, none.
StackSizes == {0, 3, 56, 60, 63}

PrimValues(t) ==
    CASE t = "Bool" -> {BoolValue(b) : b \in BOOLEAN}
      [] t = "Int" -> {IntValue(i) : i \in {-2, 6}}
      [] t = "Float" -> {WordValue(w) : w \in {Float1, Float2}}
      [] OTHER -> {WordValue(w) : w \in {<<8, 0, 0, 0, 0, 0, 0, 32>>,
                                         <<1, 0, 0, 0, 0, 0, 0, 128>>}}

MaxStackOps == 3

InitStack ==
    /\ \E size \in StackSizes, segment \in {StackTag, ProgramTag} :
          /\ sp = AddressNew(U64(size), segment).raw_address
          /\ stack = [i \in 1..StackCapacity |->
                         IF i <= size THEN 1 + (i % 5) ELSE 0]
    /\ swap = Zeros(SWAP_SPACE_SIZE)
    /\ ip = 0
    /\ registers = [r \in 0..15 |-> Zeros(8)]
    /\ call_stack = <<>>
    /\ program = NoProgram
    /\ foreign_function_uids = {}
    /\ foreign_pointers = NoPointers
    /\ InitEngine
    /\ addr_call = NoAddrCall

PushValue ==
    /\ ~Panicked
    /\ host_ops < MaxStackOps
    /\ \E t \in PrimTypes : \E v \in PrimValues(t) : push_stack(t, v)

PopValue ==
    /\ ~Panicked
    /\ host_ops < MaxStackOps
    /\ \E t \in PrimTypes : pop_stack(t)

NextStack ==
    \/ PushValue
    \/ PopValue

\* A host that registers modules and loads scripts until one compiles.
NextReload ==
    \/ RegisterModule
    \/ Reload

SpecReload == Init /\ [][NextReload]_vars

SpecStack == InitStack /\ [][NextStack]_vars

\* Address::from(raw).with_offset(offset), as mem_mov_n, mem_get_n and
\* mem_set_n form every address: the raw words are the five tags over the
\* real addresses 0, 8, 32768 and 2^61 - 1, and a word of tag 5; the
\* offsets are the ends of i16, zero, and 8 and 9 either way.
RawWords ==
    {AddressNew(real, segment).raw_address :
        real \in {U64(0), U64(8), U64(32768),
                  <<255, 255, 255, 255, 255, 255, 255, 31>>},
        segment \in ProgramTag..ForeignTag}
    \cup {<<8, 0, 0, 0, 0, 0, 0, 160>>}

Offsets == {-32768, -9, -8, 0, 8, 9, 32767}

InitAddress ==
    /\ InitCore
    /\ InitEngine
    /\ \E raw \in RawWords, offset \in Offsets :
          addr_call = [raw |-> raw, offset |-> offset, stage |-> "raw",
                       out |-> AddressFrom(Zeros(8))]

AddrFrame ==
    UNCHANGED <<stack, swap, sp, ip, registers, call_stack, program,
                foreign_function_uids, compiler, running, run_res, host_res,
                profile, source, frames, entry, host_ops, ptrVars, popped,
                last_push>>

\* Address::from(raw)
FromRaw ==
    /\ addr_call.stage = "raw"
    /\ addr_call' = [addr_call EXCEPT !.stage = "from",
                                      !.out = AddressFrom(addr_call.raw)]
    /\ AddrFrame

\* .with_offset(offset), unless Address::from has panicked
WithOffset ==
    /\ addr_call.stage = "from"
    /\ ~addr_call.out.panic
    /\ addr_call' = [addr_call EXCEPT
                        !.stage = "offset",
                        !.out = with_offset(addr_call.out, addr_call.offset)]
    /\ AddrFrame

NextAddress ==
    \/ FromRaw
    \/ WithOffset

SpecAddress == InitAddress /\ [][NextAddress]_vars

\* Scripts of one function main that returns a logical expression:
\*   fn: main() ~ bool { return <expr>; }
\* The operands are literals of the three primitive types and a comparison.
LogicOperands ==
    <<BoolLiteral(TRUE), BoolLiteral(FALSE), IntLiteral(1), IntLiteral(0),
      FloatLiteral(Float1),
      Binary("LessThan", IntLiteral(1), IntLiteral(2))>>

\* !a for every operand, then a && b and a || b for every pair.
LogicExprs ==
    [i \in 1..Len(LogicOperands) |-> Not(LogicOperands[i])]
    \o [i \in 1..(Len(LogicOperands) * Len(LogicOperands)) |->
           Binary("And",
                  LogicOperands[1 + ((i - 1) \div Len(LogicOperands))],
                  LogicOperands[1 + ((i - 1) % Len(LogicOperands))])]
    \o [i \in 1..(Len(LogicOperands) * Len(LogicOperands)) |->
           Binary("Or",
                  LogicOperands[1 + ((i - 1) \div Len(LogicOperands))],
                  LogicOperands[1 + ((i - 1) % Len(LogicOperands))])]

LogicScript(expr) ==
    <<FunctionDecl("main", <<>>, TypeBool, <<Return(expr)>>)>>

LogicScripts == [i \in 1..Len(LogicExprs) |-> LogicScript(LogicExprs[i])]

\* Scripts of one if / else-if* / else? chain between a local and a return:
\*   fn: main() ~ int {
\*       var x = 1;
\*       if x < c1 { var t = 1; } else if x < c2 { var t = 2; var u = 2; }
\*       else if x < c3 { var t = 3; } else { var t = 4; }
\*       return 7;
\*   }
\* The chain has one to three conditions, each true (x < 2) or false
\* (x < 0), and an else block or none.
MaxConds == 3

\* The truth values of the conditions of the chain m: the chains of one
\* condition, then of two, then of three.
RECURSIVE IfBits(_, _)
IfBits(m, n) ==
    IF n = 0 THEN <<>>
    ELSE IfBits(m \div 2, n - 1) \o <<m % 2 = 1>>

IfChains ==
    [m \in 1..14 |->
        CASE m <= 2 -> IfBits(m - 1, 1)
          [] m <= 6 -> IfBits(m - 3, 2)
          [] OTHER -> IfBits(m - 7, MaxConds)]

IfCond(b) ==
    Binary("LessThan", Variable("x"), IntLiteral(IF b THEN 2 ELSE 0))

\* The block of branch i declares locals of its own.
IfBlock(i) ==
    IF i = 2
    THEN <<VariableDecl("t", IntLiteral(2)), VariableDecl("u", IntLiteral(2))>>
    ELSE <<VariableDecl("t", IntLiteral(i))>>

IfScript(bits, has_else) ==
    <<FunctionDecl("main", <<>>, TypeInt,
          <<VariableDecl("x", IntLiteral(1)),
            If(IfCond(bits[1]), IfBlock(1),
               [i \in 1..(Len(bits) - 1) |->
                   <<IfCond(bits[i + 1]), IfBlock(i + 1)>>],
               IF has_else THEN <<IfBlock(Len(bits) + 1)>> ELSE <<>>),
            Return(IntLiteral(7))>>)>>

\* Every chain without an else block, then every chain with one.
IfScripts ==
    [i \in 1..(2 * Len(IfChains)) |->
        IfScript(IfChains[1 + ((i - 1) % Len(IfChains))],
                 i > Len(IfChains))]

\* 1 + 1 + ... + 1 of n literals: n literals and n - 1 sums, each of which
\* requests one temporary.
RECURSIVE Sum(_)
Sum(n) ==
    IF n = 1 THEN IntLiteral(1)
    ELSE Binary("Addition", Sum(n - 1), IntLiteral(1))

\* The sum that requests one temporary more than the allocator holds.
WideSum == Sum(8)

\* Scripts whose main returns a sum with the left operand 40:
\*   fn: f() ~ int { return 5; }
\*   fn: main() ~ int { return 40 + <rhs>; }
\* The rhs is a literal, a sum that requests thirteen temporaries, the sum
\* that requests fifteen, and a call of the script function f.
LhsValue == 40

SumRhs == <<IntLiteral(2), Sum(7), WideSum, Call("f", <<>>)>>

SumScript(rhs) ==
    << FunctionDecl("f", <<>>, TypeInt, <<Return(IntLiteral(5))>>),
       FunctionDecl("main", <<>>, TypeInt,
           <<Return(Binary("Addition", IntLiteral(LhsValue), rhs))>>) >>

SumScripts == [i \in 1..Len(SumRhs) |-> SumScript(SumRhs[i])]

\* Scripts whose main keeps one container instance in a local:
\*   cont: N { a: int; b: int; }      var p = N { a: 7, b: 9 };
\*   cont: Vector { x: float; y: float; }
\*   cont: Q { y: int; a: float; }    var p = Q { y: 7, a: 2.0 };
\*   cont: P { a: int; b: bool; }     var p = P { a: 7, b: true };
ContDecls ==
    << ContainerDecl("N", <<<<"a", TypeInt>>, <<"b", TypeInt>>>>),
       VectorDecl,
       ContainerDecl("Q", <<<<"y", TypeInt>>, <<"a", TypeFloat>>>>),
       ContainerDecl("P", <<<<"a", TypeInt>>, <<"b", TypeBool>>>>) >>

ContInstances ==
    << ContainerInstance("N",
           ("a" :> IntLiteral(7)) @@ ("b" :> IntLiteral(9))),
       VectorInstance,
       ContainerInstance("Q",
           ("y" :> IntLiteral(7)) @@ ("a" :> FloatLiteral(Float2))),
       ContainerInstance("P",
           ("a" :> IntLiteral(7)) @@ ("b" :> BoolLiteral(TRUE))) >>

ContScripts ==
    [i \in 1..Len(ContDecls) |->
        << ContDecls[i],
           FunctionDecl("main", <<>>, TypeVoid,
               <<VariableDecl("p", ContInstances[i])>>) >>]

\* The scripts a host loads into a fresh engine, one per engine; source
\* counts them behind Sources.
Scripts == LogicScripts \o IfScripts \o SumScripts \o ContScripts

ScriptIndex(i) == Len(Sources) + i

LoadScript ==
    /\ HostReady
    /\ ~program.some
    /\ source = 0
    /\ \E i \in 1..Len(Scripts) :
          /\ load_code(get_program(compile_root(compiler, Scripts[i])))
          /\ source' = ScriptIndex(i)
    /\ host_ops' = host_ops + 1
    /\ UNCHANGED <<running, run_res, profile, frames, entry>>

\* The compiler at work on the body of a function, one call of compile_stmt,
\* compile_expr or of the register allocator at a time.  The script declares
\*   fn: f() ~ int;  fn: g(a: int) ~ bool;  fn: v();  fn: main() { ... }
\* and host_ops counts the calls made on the compiler.
BodyDecls ==
    << FunctionDecl("f", <<>>, TypeInt, <<Return(IntLiteral(1))>>),
       FunctionDecl("g", <<<<"a", TypeInt>>>>, TypeBool,
           <<Return(BoolLiteral(TRUE))>>),
       FunctionDecl("v", <<>>, TypeVoid, <<>>),
       FunctionDecl("main", <<>>, TypeVoid, <<>>) >>

\* Calls of a function with a primitive return type, and of a void one.
PrimCalls == {Call("f", <<>>), Call("g", <<IntLiteral(3)>>)}

VoidCalls == {Call("v", <<>>)}

BodyExprs == PrimCalls \cup VoidCalls \cup {IntLiteral(5)}

WideExprs == {WideSum}

\* The name of the local the next statement declares.
BodyLocal == <<"a", "b", "c", "d", "e", "f">>[host_ops + 1]

BodyStmts ==
    {VariableDecl(BodyLocal, e) : e \in PrimCalls \cup {IntLiteral(5)}}
    \cup {ReturnNone}

AtWork(k) == k.err = "none" /\ k.fn_context_stack # <<>>

CompileFrame ==
    /\ host_ops' = host_ops + 1
    /\ UNCHANGED <<coreVars, running, run_res, host_res, profile, source,
                   frames, entry>>

\* compile_root up to the body of main: the declarations, then the label and
\* the function context of compile_fn_decl.
OpenBody ==
    /\ compiler.fn_context_stack = <<>>
    /\ host_ops = 0
    /\ compiler' =
          push_function_context(
              push_label(declare_decl_list(compiler, BodyDecls),
                         "root::main"),
              FunctionContextNew(compiler.containers,
                  resolve_function(declare_decl_list(compiler, BodyDecls),
                                   "main")[1]))
    /\ CompileFrame

CompileStmt ==
    /\ AtWork(compiler)
    /\ host_ops < MaxHostOps
    /\ \E stmt \in BodyStmts : compiler' = compile_stmt(compiler, stmt)
    /\ CompileFrame

CompileExpr ==
    /\ AtWork(compiler)
    /\ host_ops < MaxHostOps
    /\ \E expr \in BodyExprs \cup WideExprs :
          compiler' = compile_expr(compiler, expr)
    /\ CompileFrame

\* register_allocator.get_temp_register()
GetTempRegister ==
    /\ AtWork(compiler)
    /\ host_ops < MaxHostOps
    /\ compiler' = get_next_register(compiler)
    /\ CompileFrame

\* The block of an if branch is entered: a weak context.
EnterBlock ==
    /\ AtWork(compiler)
    /\ host_ops < MaxHostOps
    /\ compiler' = push_function_context(compiler,
                       new_weak(get_current_function(compiler)))
    /\ CompileFrame

\* The block is left: its context popped, its locals popped.
LeaveBlock ==
    /\ AtWork(compiler)
    /\ host_ops < MaxHostOps
    /\ Len(compiler.fn_context_stack) > 1
    /\ compiler' = compile_if_cleanup(compiler)
    /\ CompileFrame

NextBody ==
    \/ OpenBody
    \/ CompileStmt
    \/ CompileExpr
    \/ GetTempRegister
    \/ EnterBlock
    \/ LeaveBlock

SpecBody == Init /\ [][NextBody]_vars

\* Scripts a host loads one after the other into one engine; no two of
\* them declare the same name.
\*   fn: first() ~ int { return 1; }
\*   fn: second() ~ int { return 2; }
\*   fn: third() { std::printi(3); }
\*   fn: fourth() ~ int { return sys::now(); }
Parts ==
    << <<FunctionDecl("first", <<>>, TypeInt, <<Return(IntLiteral(1))>>)>>,
       <<FunctionDecl("second", <<>>, TypeInt, <<Return(IntLiteral(2))>>)>>,
       <<FunctionDecl("third", <<>>, TypeVoid,
             <<Expression(Call("std::printi", <<IntLiteral(3)>>))>>)>>,
       <<FunctionDecl("fourth", <<>>, TypeInt,
             <<Return(Call("sys::now", <<>>))>>)>> >>

PartIndex(i) == Len(Sources) + Len(Scripts) + i

\* Engine::load_code of the part i, whatever the engine holds.
LoadPartOf(i) ==
    /\ load_code(get_program(compile_root(compiler, Parts[i])))
    /\ source' = PartIndex(i)
    /\ host_ops' = host_ops + 1
    /\ UNCHANGED <<running, run_res, profile, frames, entry>>

LoadPart == HostReady /\ \E i \in 1..Len(Parts) : LoadPartOf(i)

\* A host that registers modules and loads scripts, one after the other.
NextParts ==
    \/ RegisterModule
    \/ LoadPart

SpecParts == Init /\ [][NextParts]_vars

\* The image of a compiled script ends in the RET or HALT of its last
\* function and every jump lands on an instruction, so the loop of run_at
\* never finds ip at the end of the code: a run ends in Step.
NextScripts ==
    \/ LoadScript
    \/ Run
    \/ RunFn
    \/ Step

SpecScripts == Init /\ [][NextScripts]_vars

\* ------------------------------------------------------------------------
\* Properties.  A script is loaded when source names it and the core holds
\* its image; the history of the compilation (bodies, calls, loops, tagged,
\* patched) is read from the compiler the engine keeps.
\* ------------------------------------------------------------------------

Compiled == source # 0 /\ program.some

\* The run is about to execute the instruction `name`.
AtOpcode(name) ==
    /\ running
    /\ ip < Len(program.code)
    /\ program.code[ip + 1] = OpcodeByte(name)

BodyUids == {compiler.bodies[i].uid : i \in DOMAIN compiler.bodies}

BodyOf(uid) ==
    compiler.bodies[CHOOSE i \in DOMAIN compiler.bodies :
                       compiler.bodies[i].uid = uid]

\* What a function leaves on the stack for its caller: its return value
\* when the return type is composite.
RetExtra(uid) ==
    IF is_primitive(BodyOf(uid).ret_type) THEN 0
    ELSE get_size_of_type(compiler.containers, BodyOf(uid).ret_type)

ZeroArg(uid) == compiler.functions[BodyOf(uid).name].arguments = <<>>

\* At a RET inside the function on top of the history, SP is the SP the
\* function was entered with, plus the size of a composite return value.
RetRestoresSp ==
    (Compiled /\ AtOpcode("RET") /\ frames # <<>>
     /\ frames[1].uid \in BodyUids)
    => get_stack_size = frames[1].sp + RetExtra(frames[1].uid)

\* A run_fn of a function without arguments and without a composite return
\* value that ends with Ok leaves the stack size it started with.
RunFnKeepsStackSize ==
    (Compiled /\ running /\ ~running' /\ run_res' = "Ok"
     /\ entry.uid \in BodyUids /\ ZeroArg(entry.uid)
     /\ RetExtra(entry.uid) = 0)
    => get_stack_size' = entry.size

\* C1: at every RET of a compiled function, at any nesting depth, SP equals
\* SP at function entry (plus ret_size when the return type is composite),
\* and consequently a run_fn of a zero-argument function that returns Ok
\* leaves the stack size equal to its value before the run.
C1_ReturnCleanupRestoresStack ==
    [][RetRestoresSp /\ RunFnKeepsStackSize]_vars

\* What the call sequence i leaves on the stack: a composite return value.
CallExtra(i) ==
    IF compiler.calls[i].composite THEN compiler.calls[i].ret_size ELSE 0

\* The n bytes on top of the stack.
TopBytes(n) == SubSeq(stack, get_stack_size - n + 1, get_stack_size)

\* The call sequences of the function on top of the history that control
\* has just run through: it is at the first instruction behind them.
CallsCompleted ==
    IF Compiled /\ running /\ frames # <<>>
    THEN {m \in frames[1].marks :
             /\ m.kind = "call"
             /\ compiler.calls[m.id].end = BuilderOffset(ip)}
    ELSE {}

\* C2: once the call sequence of a well-typed call expression has
\* completed, the compiler's stack_size counter and the runtime SP equal
\* their values before argument marshalling, plus ret_size when the return
\* type is composite, and then the top ret_size bytes of the stack hold
\* what the callee returned.
C2_CallSequenceBalanced ==
    /\ Compiled =>
          \A i \in DOMAIN compiler.calls :
              compiler.calls[i].after = compiler.calls[i].before + CallExtra(i)
    /\ \A m \in CallsCompleted :
          /\ get_stack_size = m.sp + CallExtra(m.id)
          /\ CallExtra(m.id) > 0 => TopBytes(CallExtra(m.id)) = m.ret

\* A foreign function called with an argument has handed back a string.
C2_Witness ==
    \E m \in CallsCompleted :
        /\ compiler.calls[m.id].uid \in foreign_function_uids
        /\ compiler.calls[m.id].at > compiler.calls[m.id].start
        /\ CallExtra(m.id) = 16
        /\ m.sp > 0
        /\ m.ret = ForeignString
        /\ TopBytes(16) = ForeignString

\* The while statements that enclose the builder offset off, and the
\* innermost of them: the one that starts last.
LoopsAround(off) ==
    {i \in DOMAIN compiler.loops :
        compiler.loops[i].start <= off /\ off < compiler.loops[i].end}

InnermostLoop(off) ==
    compiler.loops[CHOOSE i \in LoopsAround(off) :
                      \A j \in LoopsAround(off) :
                          compiler.loops[j].start <= compiler.loops[i].start]

\* The while statements of the function on top of the history that control
\* is inside of.
LoopsOpen ==
    IF Compiled /\ running /\ frames # <<>>
    THEN {m \in frames[1].marks : m.kind = "loop"}
    ELSE {}

\* At the condition check of a while statement and at the first
\* instruction behind it, SP is what it was when the statement was entered.
LoopKeepsSp ==
    \A m \in LoopsOpen :
        BuilderOffset(ip) \in {compiler.loops[m.id].start,
                               compiler.loops[m.id].end}
        => get_stack_size = m.sp

\* The JMP of a break lands behind the innermost while statement around
\* it, the JMP of a continue on that statement's condition check.
LoopJumpsLand ==
    \A n \in DOMAIN compiler.jumps :
        (Compiled /\ running /\ running'
         /\ BuilderOffset(ip) = compiler.jumps[n].at)
        => BuilderOffset(ip') =
              IF compiler.jumps[n].kind = "break"
              THEN InnermostLoop(compiler.jumps[n].at).end
              ELSE InnermostLoop(compiler.jumps[n].at).start

\* C3: each time control reaches the condition check of a while loop, and
\* when control leaves the loop, SP equals its value when the while
\* statement was entered; break goes to the first instruction after the
\* innermost enclosing loop and continue to that loop's condition check.
C3_WhileLoopsBalanced == [][LoopKeepsSp /\ LoopJumpsLand]_vars

\* The outer of two nested loops was left by the break inside its else-if
\* block: control is behind the loop while its condition, x < 3, holds.
C3_Witness ==
    \E m \in LoopsOpen :
        /\ BuilderOffset(ip) = compiler.loops[m.id].end
        /\ \E i \in DOMAIN compiler.loops :
              /\ compiler.loops[m.id].start < compiler.loops[i].start
              /\ compiler.loops[i].end < compiler.loops[m.id].end
        /\ \E n \in DOMAIN compiler.jumps :
              /\ compiler.jumps[n].kind = "break"
              /\ InnermostLoop(compiler.jumps[n].at) = compiler.loops[m.id]
        /\ m.sp = 8
        /\ get_stack_size = 8
        /\ SubSeq(stack, 1, 8) = U64(2)

\* SP carries the Stack tag and its real address is inside the stack.
SpInBounds ==
    /\ AddressFrom(sp).address_type = StackTag
    /\ ToIndex(AddressFrom(sp).real_address) <= StackCapacity

\* C4: at every instruction boundary of a run and after every host
\* push_stack and pop_stack, the real address in SP is at most the stack
\* capacity and SP carries the Stack tag, whichever instruction wrote
\* register 16; a push_stack that cannot move SP fails with StackOverflow.
C4_SpWithinCapacity ==
    [][/\ SpInBounds'
       /\ (PushStack /\ sp' = sp) => host_res' = "StackOverflow"]_vars

\* The uid operand of the CALL the run is about to execute.
CallUid == ToIndex(SubSeq(program.code, ip + 2, ip + 9))

\* A CALL of a native function pushes the address of the instruction behind
\* it and continues at the callee's offset.
CallPushes ==
    (AtOpcode("CALL") /\ running'
     /\ CallUid \notin foreign_function_uids)
    => /\ call_stack' = <<ip + 9>> \o call_stack
       /\ ip' = program.functions[CallUid]

\* The calls of native functions that have not returned: every function the
\* run has entered and not left, but the one it started at.
ActiveCalls == Len(frames) - 1

\* A RET resumes behind the most recent CALL that has not returned; with no
\* call active it ends the run with Ok.
RetPops ==
    (AtOpcode("RET") /\ frames # <<>>)
    => IF ActiveCalls > 0
       THEN /\ running'
            /\ ip' = frames[1].ret
            /\ call_stack' = Tail(call_stack)
       ELSE ~running' /\ run_res' = "Ok"

\* C5: CALL pushes the address of the next instruction and enters the
\* callee, RET resumes behind the most recent CALL that has not returned,
\* the depth of the call stack is the number of native calls active, and a
\* RET with no call active ends the run with Ok.
C5_CallStackIsLifo ==
    [][/\ CallPushes
       /\ RetPops
       /\ (running /\ frames # <<>>) => Len(call_stack) = ActiveCalls]_vars

\* A step that ends the run in progress.
RunStops == running /\ ~running'

\* The run ends at a HALT with an error, at a RET on an empty call stack
\* with Ok, or with the error an instruction raised.
StopsAtInstruction ==
    \/ AtOpcode("HALT") /\ run_res' # "Ok"
    \/ AtOpcode("RET") /\ call_stack = <<>> /\ run_res' = "Ok"
    \/ ip < Len(program.code) /\ run_res' \notin {"Ok", "Running"}

\* C6 as stated: a run stops only by executing HALT (an error), by
\* executing RET while the call stack is empty (Ok), or by an instruction
\* raising a runtime error, and returns Ok in no other way.
C6_StopsOnlyAtInstruction == [][RunStops => StopsAtInstruction]_vars

\* C6, amended: a run stops in one of those three ways or by IP reaching
\* the end of the program image, which returns Ok.
C6_StopsAtInstructionOrEnd ==
    [][RunStops =>
          \/ StopsAtInstruction
          \/ ip >= Len(program.code) /\ run_res' = "Ok"]_vars

\* The image of test_core_addi, which holds neither RET nor HALT, has run
\* to its end and the run returned Ok.
C6_Witness ==
    /\ program = ProgramOf(build(<<>>, RawAddi), <<>>)
    /\ ~running
    /\ run_res = "Ok"
    /\ ip = Len(program.code)

\* The offset in the image of the builder offset off.
ImageOffset(off) == off + Len(compiler.bytes)

\* Behind the body of every function of the image stands HALT 1.
HaltAfterBody ==
    Compiled =>
        \A i \in DOMAIN compiler.bodies :
            SubSeq(program.code, ImageOffset(compiler.bodies[i].halt) + 1,
                   ImageOffset(compiler.bodies[i].halt) + 2)
            = <<OpcodeByte("HALT"), 1>>

\* The function on top of the history is a function of the script.
InBody ==
    Compiled /\ running /\ frames # <<>> /\ frames[1].uid \in BodyUids

\* Control inside a function stays between the start of its body and the
\* HALT behind it, and before that HALT when the function is Void.
StaysInBody ==
    InBody =>
        /\ BodyOf(frames[1].uid).start <= BuilderOffset(ip)
        /\ BuilderOffset(ip) <= BodyOf(frames[1].uid).halt
        /\ BodyOf(frames[1].uid).ret_type = TypeVoid
              => BuilderOffset(ip) < BodyOf(frames[1].uid).halt

\* Control at the HALT behind a body: the run ends with NoReturnValue.
FallsIntoHalt ==
    (InBody /\ BuilderOffset(ip) = BodyOf(frames[1].uid).halt)
    => ~running' /\ run_res' = "NoReturnValue"

\* C7: every compiled function body is followed by HALT 1; a function with
\* a return type other than Void that meets no return statement reaches
\* that HALT and the run ends with NoReturnValue, without continuing into
\* the next function; a Void function ends at a RET and never reaches it.
C7_BodyEndsInHalt == [][HaltAfterBody /\ StaysInBody /\ FallsIntoHalt]_vars

\* g, whose body meets no return, was called from main and the run has
\* ended with NoReturnValue behind the HALT of g.
C7_Witness ==
    /\ Compiled
    /\ ~running
    /\ run_res = "NoReturnValue"
    /\ Len(frames) = 2
    /\ frames[1].uid \in BodyUids
    /\ BodyOf(frames[1].uid).ret_type = TypeInt
    /\ BodyOf(frames[1].uid).start = BodyOf(frames[1].uid).halt
    /\ BuilderOffset(ip) = BodyOf(frames[1].uid).halt + 2

\* The image is as get_program returned it and no run has started: no
\* later step changes the image or the compiler.
ImageFresh == Compiled /\ run_res = "none"

\* The uids the compiler drew as tags.
TagUids == DOMAIN compiler.tags

\* The target operand, in the image, of the jump that is instruction
\* number pos (from 0) of the builder.
ImageTarget(pos) ==
    LeNat(SubSeq(program.code,
                 ImageOffset(SizeBefore(compiler.instructions, pos))
                 + 1 + AddrOffset(compiler.instructions[pos + 1]) + 1,
                 ImageOffset(SizeBefore(compiler.instructions, pos))
                 + 1 + AddrOffset(compiler.instructions[pos + 1]) + 8))

Occurrences(seq, x) == Cardinality({i \in DOMAIN seq : seq[i] = x})

\* C8: in a program that compiled, every jump emitted with a tag for its
\* target was backpatched exactly once: there are as many backpatches as
\* tagged instructions, and no jump operand of the image holds a tag uid.
C8_TaggedJumpsPatchedOnce ==
    ImageFresh =>
        /\ Len(compiler.patched) = Len(compiler.tagged)
        /\ \A i \in DOMAIN compiler.tagged :
              /\ Occurrences(compiler.tagged, compiler.tagged[i]) = 1
              /\ Occurrences(compiler.patched, compiler.tagged[i]) = 1
        /\ \A i \in DOMAIN compiler.jmp_instructions :
              /\ ImageTarget(compiler.jmp_instructions[i]) \notin TagUids
              /\ ImageTarget(compiler.jmp_instructions[i]) - Len(compiler.bytes)
                    \notin TagUids

\* SourceLoops is loaded: two while loops with their breaks and an
\* if / else-if / else chain, behind a data segment.
C8_Witness ==
    /\ ImageFresh
    /\ Len(compiler.bytes) > 0
    /\ Len(compiler.loops) = 2
    /\ Len(compiler.tagged) >= 10
    /\ \E t \in TagUids : Len(compiler.tags[t]) > 1
    /\ \E n \in DOMAIN compiler.jumps : compiler.jumps[n].kind = "break"

\* The target operand of jump number pos as the builder holds it: the
\* offset in the instruction stream it was patched to.
BuilderTarget(pos) ==
    LeNat(get_operand(compiler.instructions[pos + 1],
                      AddrOffset(compiler.instructions[pos + 1]), 8))

\* The offsets in the instruction stream at which an instruction starts.
InstrOffsets ==
    {SizeBefore(compiler.instructions, n) :
        n \in 0..(Len(compiler.instructions) - 1)}

\* C9: in the Program get_program returns, with data_len the length of
\* the data segment in front of the code, the target of every JMP, JMPT
\* and JMPF is the offset it was patched to plus data_len and is the first
\* byte of an instruction of the image, every native function's entry in
\* the function table is the offset of its label plus data_len, and every
\* instruction has kept its place and size.
C9_TargetsShiftedByDataLen ==
    ImageFresh =>
        /\ \A i \in DOMAIN compiler.jmp_instructions :
              /\ ImageTarget(compiler.jmp_instructions[i])
                 = BuilderTarget(compiler.jmp_instructions[i])
                   + Len(compiler.bytes)
              /\ ImageTarget(compiler.jmp_instructions[i])
                 - Len(compiler.bytes) \in InstrOffsets
        /\ DOMAIN program.functions = BodyUids
        /\ \A uid \in BodyUids :
              program.functions[uid] = ImageOffset(BodyOf(uid).start)
        /\ Len(program.code)
           = ImageOffset(SizeBefore(compiler.instructions,
                                    Len(compiler.instructions)))
        /\ \A n \in 0..(Len(compiler.instructions) - 1) :
              program.code[ImageOffset(SizeBefore(compiler.instructions, n))
                           + 1]
              = OpcodeByte(compiler.instructions[n + 1].opcode)

\* An image with jumps and a function behind a data segment of two bytes:
\* the targets and the table entry differ from the builder's offsets.
C9_Witness ==
    /\ ImageFresh
    /\ Len(compiler.bytes) = 2
    /\ \E i \in DOMAIN compiler.jmp_instructions :
          ImageTarget(compiler.jmp_instructions[i])
          # BuilderTarget(compiler.jmp_instructions[i])
    /\ \E uid \in BodyUids :
          BodyOf(uid).start = 0 /\ program.functions[uid] = 2

\* The fields of a container in the order they were declared, and their
\* sizes in that order.
DeclaredFields(def) ==
    [i \in 1..Cardinality(DOMAIN def.member_indices) |->
        CHOOSE n \in DOMAIN def.member_indices : def.member_indices[n] = i - 1]

DeclaredSizes(def) ==
    [i \in 1..Len(DeclaredFields(def)) |->
        get_size_of_type(compiler.containers,
                         def.member_variables[DeclaredFields(def)[i]])]

\* C10: for every container, whatever the names of its fields and whether
\* a later declaration added some, get_size is the sum of the sizes of all
\* fields and get_member_offset of a field is the sum of the sizes of the
\* fields declared before it.
C10_OffsetsArePrefixSums ==
    \A c \in DOMAIN compiler.containers :
        /\ get_size(compiler.containers, compiler.containers[c])
           = SumSeq(DeclaredSizes(compiler.containers[c]))
        /\ \A i \in 1..Len(DeclaredFields(compiler.containers[c])) :
              get_member_offset(compiler.containers, compiler.containers[c],
                                DeclaredFields(compiler.containers[c])[i])
              = SumSeq(SubSeq(DeclaredSizes(compiler.containers[c]),
                              1, i - 1))

\* The index in Sources of a script.
SourceIndex(src) == CHOOSE i \in 1..Len(Sources) : Sources[i] = src

\* The run is about to execute the RET of main, entered by the host.
MainAtRet ==
    /\ Compiled /\ AtOpcode("RET")
    /\ Len(frames) = 1
    /\ "main" \in DOMAIN compiler.functions
    /\ frames[1].uid = compiler.functions["main"].uid

\* The four bytes of the stack slot of main's second local, which lies
\* behind the eight bytes of the Vector.
SlotOfX == SubSeq(stack, frames[1].sp + 9, frames[1].sp + 12)

\* The script of test_compile_member_call compiles and is loaded.
MemberCallCompiles == source = SourceIndex(SourceMember) => program.some

\* When main of either Vector script is about to return, the slot of x
\* holds 2.0.
FieldReadIsCurrent ==
    (source \in {SourceIndex(SourceMember), SourceIndex(SourceField)}
     /\ MainAtRet)
    => SlotOfX = Float2

\* C11: a member-access rvalue evaluates to the current value of the field
\* and a member call calls the member function with the address of the
\* object: the Vector script compiles, and running main leaves 2.0 in the
\* stack slot of x.
C11_MemberAccessReadsField == MemberCallCompiles /\ FieldReadIsCurrent

\* The scripts whose statements assign a variable to itself.
SelfAssignSources ==
    {SourceIndex(SourceAssignPrimitive), SourceIndex(SourceAssignContainer),
     SourceIndex(SourceAssignSlice)}

\* The statements `x = x` of the script loaded, in compiler.assigns.
SelfAssigns ==
    {i \in DOMAIN compiler.assigns :
        /\ compiler.assigns[i].op = "Assign"
        /\ compiler.assigns[i].lhs = compiler.assigns[i].rhs}

\* The run is inside main, which nothing called.
InMain ==
    /\ Compiled /\ running /\ Len(frames) = 1
    /\ "main" \in DOMAIN compiler.functions
    /\ frames[1].uid = compiler.functions["main"].uid

\* The next instruction belongs to the code of a statement `x = x` of main.
InSelfAssign ==
    /\ source \in SelfAssignSources
    /\ InMain
    /\ \E i \in SelfAssigns :
          /\ compiler.assigns[i].start <= BuilderOffset(ip)
          /\ BuilderOffset(ip) < compiler.assigns[i].end

\* The variables of main and the bytes of the slot of each.
MainVariables == get_current_function(compiler).variable_positions

SlotOf(name) ==
    SubSeq(stack,
           frames[1].sp + MainVariables[name] + 1,
           frames[1].sp + MainVariables[name]
           + get_size_of_type(compiler.containers,
                 get_current_function(compiler).variable_types[name]))

LiveSlots == [name \in DOMAIN MainVariables |-> SlotOf(name)]

\* C12: every instruction of the code compiled for a statement `x = x`, x
\* an int, a float, a bool, a reference, a slice reference or a container,
\* leaves the bytes of the slot of x and of every other variable of the
\* function as they were.
C12_SelfAssignKeepsSlots ==
    [][InSelfAssign => LiveSlots' = LiveSlots]_vars

\* The statement `r = r` of SourceAssignContainer, the last of main, has run
\* behind `v = v`: v holds the instance, r the address of v.
C12_SelfAssignRan ==
    /\ source = SourceIndex(SourceAssignContainer)
    /\ InMain
    /\ BuilderOffset(ip) = compiler.assigns[Len(compiler.assigns)].end
    /\ SelfAssigns = {1, 2}
    /\ SlotOf("v") = Float2 \o Float1
    /\ AddressFrom(SlotOf("r")).address_type = StackTag
    /\ ToIndex(AddressFrom(SlotOf("r")).real_address)
           = frames[1].sp + MainVariables["v"]

\* The run is about to execute a CALL whose operand is a foreign uid.
AtForeignCall ==
    /\ AtOpcode("CALL")
    /\ CallUid \in foreign_function_uids

\* What the closure of the function called makes of the core.
ClosureRan ==
    run_closure(CoreRec(FALSE), program.foreign_functions[CallUid])

\* The step executes a foreign CALL and the instruction completes.
ForeignCallCompletes == AtForeignCall /\ running' /\ ip' # ip

\* C13: a CALL on a foreign uid that completes runs the closure once: SP,
\* the stack and the registers are what one run of the closure made of
\* them, the table of foreign functions holds the entries it held, the call
\* stack is unchanged and IP is behind the CALL.
C13_ForeignCallRunsClosureOnce ==
    [][ForeignCallCompletes =>
          /\ program'.foreign_functions = program.foreign_functions
          /\ program' = program
          /\ foreign_function_uids' = foreign_function_uids
          /\ call_stack' = call_stack
          /\ ip' = ip + 9
          /\ sp' = ClosureRan.sp
          /\ stack' = ClosureRan.stack
          /\ registers' = ClosureRan.registers]_vars

\* std::name, whose closure pushes a String, has been called by the script
\* and has come back: IP is behind the CALL, its 16 bytes are on the stack.
C13_ForeignCallReturned ==
    /\ Compiled /\ running
    /\ "std::name" \in DOMAIN compiler.functions
    /\ compiler.functions["std::name"].uid \in foreign_function_uids
    /\ ip >= 9
    /\ program.code[ip - 8] = OpcodeByte("CALL")
    /\ SubSeq(program.code, ip - 7, ip)
           = U64(compiler.functions["std::name"].uid)
    /\ get_stack_size >= 16
    /\ SubSeq(stack, get_stack_size - 15, get_stack_size) = ForeignString

\* Every foreign function registered: those the compiler holds and those
\* of the program loaded.
RegisteredFunctions ==
    {compiler.foreign_functions[u] : u \in DOMAIN compiler.foreign_functions}
    \cup {program.foreign_functions[u] : u \in DOMAIN program.foreign_functions}

\* arg_offset(i) is minus the sizes of the arguments from i to the last.
OffsetsAreSuffixSums ==
    \A f \in RegisteredFunctions :
        /\ Len(f.arg_offsets) = Len(f.arg_types)
        /\ \A i \in 1..Len(f.arg_types) :
              f.arg_offsets[i]
                  = -SumSeq([j \in 1..(Len(f.arg_types) - i + 1) |->
                                get_size_of_type(compiler.containers,
                                                 f.arg_types[i + j - 1])])

\* The arguments the scripts pass to the functions of std that take an int
\* or a float.
PassedArgs ==
    [name \in {"std::printi", "std::geti", "std::name", "std::put"} |->
        CASE name = "std::printi" -> <<LeBytes(3, 8)>>
          [] name = "std::geti" -> <<LeBytes(4, 8)>>
          [] name = "std::name" -> <<LeBytes(3, 8)>>
          [] name = "std::put" -> <<LeBytes(1, 8), Float2, LeBytes(3, 8)>>]

\* What Adapter::get_arg(i) reads at the CALL the run is about to execute.
ArgRead(i) ==
    mem_get_n(CoreRec(FALSE), sp,
              program.foreign_functions[CallUid].arg_offsets[i],
              program.foreign_functions[CallUid].arg_sizes[i])

\* At the CALL of a foreign function, get_arg(i) is the i-th argument the
\* script passed.
ArgsAsPassed ==
    (Compiled /\ AtForeignCall)
    => \A name \in DOMAIN PassedArgs :
          (/\ name \in DOMAIN compiler.functions
           /\ compiler.functions[name].uid = CallUid)
          => \A i \in 1..Len(PassedArgs[name]) :
                /\ ArgRead(i).st = "none"
                /\ ArgRead(i).v = PassedArgs[name][i]

\* C14: registering a foreign function with n >= 0 arguments succeeds, its
\* arg_offset(i) is minus the sum of the sizes of the arguments i..n-1, and
\* at the CALL of a call site get_arg(i) reads the i-th argument passed.
C14_ForeignArgsWhereRegistered ==
    [][/\ RegisterModule => host_res' = "Ok"
       /\ OffsetsAreSuffixSums'
       /\ ArgsAsPassed']_vars

\* ------------------------------------------------------------------------
\* The foreign pointers (SpecForeign)
\* ------------------------------------------------------------------------

\* A call on the foreign pointers is made in this step.
PtrCalled(op) == ptr_res'.n = ptr_res.n + 1 /\ ptr_res'.op = op

\* The entries live under the handle ptr.
LiveAt(ptr) == {e \in live : e.handle = ptr}

\* A get of a live handle returns the object inserted under it, and a get
\* of a handle that is not live fails.
GetResolves ==
    PtrCalled("get") =>
       IF LiveAt(ptr_res'.ptr) = {}
       THEN host_res' = "Unknown"
       ELSE /\ host_res' = "Ok"
            /\ \A e \in LiveAt(ptr_res'.ptr) : ptr_res'.item = e.item

\* A remove of a live handle returns the object inserted under it and ends
\* the entry; a remove of a handle that is not live fails.
RemoveReturns ==
    PtrCalled("remove") =>
       IF LiveAt(ptr_res'.ptr) = {}
       THEN host_res' = "Unknown" /\ live' = live
       ELSE /\ host_res' = "Ok"
            /\ \A e \in LiveAt(ptr_res'.ptr) : ptr_res'.item = e.item
            /\ live' = live \ LiveAt(ptr_res'.ptr)

\* Two entries live at the same time have different handles.
LiveHandlesDiffer ==
    \A e1, e2 \in live' : e1.handle = e2.handle => e1 = e2

\* A get or a remove of a handle that was removed before fails.
RemovedStaysDead ==
    (PtrCalled("get") \/ PtrCalled("remove")) /\ ptr_res'.ptr \in removed
       => host_res' = "Unknown"

\* A get or a remove of a handle that was removed and that no later insert
\* has returned again fails.
RemovedDeadUntilReissued ==
    /\ PtrCalled("get") \/ PtrCalled("remove")
    /\ ptr_res'.ptr \in removed
    /\ LiveAt(ptr_res'.ptr) = {}
    => host_res' = "Unknown"

\* C15: as stated: a live handle resolves through get to the object
\* inserted, live entries never share a handle, remove returns that object,
\* and once a handle was removed every later get and remove of it fails.
C15_RemovedHandleNeverResolves ==
    [][/\ GetResolves
       /\ RemoveReturns
       /\ LiveHandlesDiffer
       /\ RemovedStaysDead]_vars

\* C15: a live handle resolves through get to the object inserted, live
\* entries never share a handle, remove returns that object, and a removed
\* handle fails in get and remove until a later insert returns it again.
C15_ForeignPtrTable ==
    [][/\ GetResolves
       /\ RemoveReturns
       /\ LiveHandlesDiffer
       /\ RemovedDeadUntilReissued]_vars

\* Two objects were inserted, the handle of the first was removed, and a
\* get of it has just failed while the second is live.
C15_RemovedHandleFailed ==
    /\ Cardinality(live) = 1
    /\ \E e \in live :
          foreign_pointers = Inserted(NoPointers, e.handle, "O2")
    /\ ptr_res.op = "get"
    /\ ptr_res.ptr \in removed
    /\ LiveAt(ptr_res.ptr) = {}
    /\ host_res = "Unknown"

\* C16: every handle insert_foreign_ptr returns carries the Foreign tag in
\* its top 3 bits and decodes through Address::from to the Foreign segment.
C16_HandleIsForeign ==
    ptr_res.op = "insert" /\ host_res = "Ok" =>
       /\ ptr_res.ptr[8] \div 32 = ForeignTag
       /\ ~AddressFrom(ptr_res.ptr).panic
       /\ AddressFrom(ptr_res.ptr).address_type = ForeignTag

\* ------------------------------------------------------------------------
\* push_stack and pop_stack (SpecStack)
\* ------------------------------------------------------------------------

\* The bytes of the stack below the stack size of the SP raw.
Below(stk, raw) == SubSeq(stk, 1, StackSizeOf(raw))

\* This step is a push_stack of a value that the stack has room for.
PushFits ==
    /\ \E t \in PrimTypes : \E v \in PrimValues(t) : push_stack(t, v)
    /\ ~AddressFrom(sp).panic
    /\ StackSizeOf(sp) + size_of(last_push'.t) <= Len(stack)

\* This step is a pop_stack::<T> right after a push_stack of a T that the
\* stack had room for.
PopAfterPush ==
    /\ last_push.fresh
    /\ pop_stack(last_push.t)
    /\ ~AddressFrom(last_push.sp).panic
    /\ StackSizeOf(last_push.sp) + size_of(last_push.t) <= Len(stack)

\* C17: a push_stack of a primitive that the stack has room for succeeds
\* and leaves the bytes below SP alone, and the pop_stack of the same type
\* right after it returns the value pushed, puts SP back where it was before
\* the push and leaves the bytes below that SP alone.
C17_PushPopRoundTrip ==
    [][/\ PushFits =>
             /\ host_res' = "Ok"
             /\ Below(stack', sp) = Below(stack, sp)
       /\ PopAfterPush =>
             /\ host_res' = "Ok"
             /\ popped'.v = last_push.v
             /\ sp' = last_push.sp
             /\ Below(stack', sp') = Below(stack, sp')]_vars

\* A float was pushed into the last 4 free bytes of a stack and popped.
C17_FloatCameBack ==
    /\ host_ops = 2
    /\ ~last_push.fresh
    /\ last_push.t = "Float"
    /\ last_push.v = WordValue(Float1)
    /\ StackSizeOf(last_push.sp) = StackCapacity - 4
    /\ popped.t = "Float"
    /\ popped.v = WordValue(Float1)
    /\ host_res = "Ok"
    /\ sp = last_push.sp

\* ------------------------------------------------------------------------
\* ADDU_I sp, n, sp
\* ------------------------------------------------------------------------

\* The instruction the run executes next.
NextInstr == Fetch(CoreRec(FALSE))

\* The run is about to execute ADDU_I sp, n, sp under an SP that carries the
\* Stack tag.
AtIncStack ==
    /\ running
    /\ ip < Len(program.code)
    /\ NextInstr.op = "ADDU_I"
    /\ ~NextInstr.short
    /\ NextInstr.o[1][1] = 16
    /\ NextInstr.o[3][1] = 16
    /\ AddressFrom(sp).address_type = StackTag

\* SP_real + n, and whether it is above the capacity of the stack.
IncSum == Add64(AddressFrom(sp).real_address, NextInstr.o[2])

IncOverflows == IncSum.ovf \/ ToIndex(IncSum.v) > Len(stack)

\* C18: ADDU_I sp, n, sp fails with StackOverflow and leaves SP and the
\* stack alone when SP_real + n is above the capacity; else SP_real becomes
\* SP_real + n under the Stack tag.
C18_IncStackGuarded ==
    [][AtIncStack =>
          IF IncOverflows
          THEN run_res' = "StackOverflow" /\ sp' = sp /\ stack' = stack
          ELSE /\ run_res' = "Running"
               /\ AddressFrom(sp').real_address = IncSum.v
               /\ AddressFrom(sp').address_type = StackTag]_vars

\* The same for every n with SP_real + n below 2^64.
IncStackGuardedBelowWrap ==
    [][AtIncStack /\ ~IncSum.ovf =>
          IF IncOverflows
          THEN run_res' = "StackOverflow" /\ sp' = sp /\ stack' = stack
          ELSE /\ run_res' = "Running"
               /\ AddressFrom(sp').real_address = IncSum.v
               /\ AddressFrom(sp').address_type = StackTag]_vars

\* ------------------------------------------------------------------------
\* Address::from(a).with_offset(o) (SpecAddress)
\* ------------------------------------------------------------------------

\* The low 61 bits of a word.
Low61(w) == [w EXCEPT ![8] = @ % 32]

\* real + o in exact arithmetic, kept to 61 bits.
RealPlus(real, o) ==
    Low61(IF o < 0 THEN Sub64(real, LeBytes(-o, 8)).v
          ELSE Add64(real, LeBytes(o, 8)).v)

\* with_offset has returned, or has panicked where overflow is checked.
OffsetApplied == addr_call.stage = "offset"

OffsetPanicked == addr_call.out.ovf /\ profile = "debug"

\* The offset stays within the real address: no borrow below 0.
OffsetWithinReal ==
    /\ addr_call.offset > -32768
    /\ ToIndex(Low61(addr_call.raw)) + addr_call.offset >= 0

\* C19: Address::from(a).with_offset(o) returns, for every tagged a and
\* every i16 o, the address with a's tag and the real address real(a) + o
\* worked out within the 61 bits, raw and real forms agreeing.
C19_OffsetOnRealOnly ==
    OffsetApplied =>
       /\ ~OffsetPanicked
       /\ addr_call.out.address_type = addr_call.raw[8] \div 32
       /\ addr_call.out.real_address
             = RealPlus(Low61(addr_call.raw), addr_call.offset)
       /\ addr_call.out.raw_address
             = Add64(addr_call.out.real_address,
                     TagWord(addr_call.out.address_type)).v

\* What holds: the tag is kept, and while the offset stays within the real
\* address the real address is real(a) + o.
OffsetKeepsTagWithinReal ==
    OffsetApplied =>
       /\ addr_call.out.address_type = addr_call.raw[8] \div 32
       /\ OffsetWithinReal =>
             /\ ~addr_call.out.ovf
             /\ addr_call.out.real_address
                   = Add64(Low61(addr_call.raw),
                           LeBytes(addr_call.offset, 8)).v

\* ------------------------------------------------------------------------
\* load_code that fails (SpecReload)
\* ------------------------------------------------------------------------

\* A load_code has failed in this step.
LoadFailed == Reload /\ host_res' # "Ok"

\* The image of the program loaded holds the instruction i of the builder,
\* at the offset the builder has it at.
InImage(i) ==
    /\ Len(compiler.bytes) + SizeBefore(compiler.instructions, i)
          <= Len(program.code)
    /\ program.code[Len(compiler.bytes)
                    + SizeBefore(compiler.instructions, i - 1) + 1]
          = OpcodeByte(compiler.instructions[i].opcode)

\* No instruction that a failed load_code had emitted is in the program
\* loaded.
NoDroppedInImage ==
    program.some => \A i \in compiler.dropped : ~InImage(i)

\* A load_code that fails leaves the program, its function table and the
\* foreign uids of the core as they were.
FailedLoadKeepsCore ==
    [][LoadFailed => UNCHANGED <<program, foreign_function_uids>>]_vars

\* C20: a load_code that fails leaves the program, its function table and
\* the foreign uids of the core as they were, and no instruction emitted
\* before the error is in a program loaded later.
C20_FailedLoadLeavesNothing ==
    [][/\ LoadFailed => UNCHANGED <<program, foreign_function_uids>>
       /\ NoDroppedInImage']_vars

\* Every operand of a logical expression has the checked type Bool.
OperandsAreBool(expr) ==
    IF expr.e = "Not" THEN check_expr_type(compiler, expr.expr) = TypeBool
    ELSE /\ check_expr_type(compiler, expr.lhs) = TypeBool
         /\ check_expr_type(compiler, expr.rhs) = TypeBool

\* The builder holds a NOT, AND or OR instruction.
EmitsLogic ==
    \E i \in DOMAIN compiler.instructions :
        compiler.instructions[i].opcode \in {"NOT", "AND", "OR"}

\* The load of the logic script i was rejected and emitted no logic
\* instruction.
LogicRejected(i) ==
    /\ source = ScriptIndex(i)
    /\ ~program.some
    /\ host_res # "Ok"
    /\ ~EmitsLogic

\* C21: compiling a NOT, AND or OR expression in which any operand is not of
\* type Bool is rejected with a compile error, and NOT, AND and OR
\* instructions are only ever emitted for operands whose checked type is
\* Bool.
C21_LogicOperandsAreBool ==
    \A i \in 1..Len(LogicExprs) :
        (source = ScriptIndex(i) /\ ~OperandsAreBool(LogicExprs[i]))
        => LogicRejected(i)

\* What holds of the code: a NOT of an operand that is not Bool is rejected,
\* and so are an AND and an OR of two operands of different types.
LogicMismatchRejected ==
    \A i \in 1..Len(LogicExprs) :
        (/\ source = ScriptIndex(i)
         /\ \/ LogicExprs[i].e = "Not" /\ ~OperandsAreBool(LogicExprs[i])
            \/ /\ LogicExprs[i].e \in Logical
               /\ check_expr_type(compiler, LogicExprs[i].lhs)
                      # check_expr_type(compiler, LogicExprs[i].rhs))
        => LogicRejected(i)

\* An AND of two Int operands was compiled and loaded.
IntAndIntLoaded ==
    \E i \in 1..Len(LogicExprs) :
        /\ source = ScriptIndex(i)
        /\ LogicExprs[i].e = "And"
        /\ check_expr_type(compiler, LogicExprs[i].lhs) = TypeInt
        /\ check_expr_type(compiler, LogicExprs[i].rhs) = TypeInt
        /\ program.some
        /\ EmitsLogic

\* The if script i is loaded: its conditions, whether it has an else block,
\* and the branch it takes (0: none).
IfScriptAt(i) ==
    source = ScriptIndex(Len(LogicScripts) + i) /\ program.some

IfBitsOf(i) == IfChains[1 + ((i - 1) % Len(IfChains))]

IfHasElse(i) == i > Len(IfChains)

IfTaken(i) ==
    IF \E m \in 1..Len(IfBitsOf(i)) : IfBitsOf(i)[m]
    THEN CHOOSE m \in 1..Len(IfBitsOf(i)) :
             IfBitsOf(i)[m] /\ \A l \in 1..(m - 1) : ~IfBitsOf(i)[l]
    ELSE IF IfHasElse(i) THEN Len(IfBitsOf(i)) + 1
    ELSE 0

\* The end of the one chain of the script, and where branch j (1 is the if)
\* opens and ends: at the next branch, or at the end of the chain.
ChainEnd == compiler.ifs[1].end

BranchOpen(j) == compiler.branches[j].cond

BranchEnd(j) ==
    IF j < Len(compiler.branches) THEN compiler.branches[j + 1].cond
    ELSE ChainEnd

\* The run is inside the chain, in branch j.
InChain(at) ==
    BranchOpen(1) <= BuilderOffset(at) /\ BuilderOffset(at) < ChainEnd

InBranch(j, at) ==
    BranchOpen(j) <= BuilderOffset(at) /\ BuilderOffset(at) < BranchEnd(j)

\* Conditions are evaluated in source order until the first that is true,
\* and only the block of that one is entered (the else block if none is).
IfOrder(i) ==
    \A j \in 1..Len(compiler.branches) :
        /\ InBranch(j, ip) =>
              \A l \in 1..(j - 1) : l <= Len(IfBitsOf(i)) => ~IfBitsOf(i)[l]
        /\ (compiler.branches[j].block <= BuilderOffset(ip)
            /\ BuilderOffset(ip) < BranchEnd(j)) => IfTaken(i) = j

\* The chain is left from the branch taken (from the JMPF of the last
\* condition if none is), to the first instruction behind the chain, with
\* SP where it was ahead of the statement: above the one local x.
IfExit(i) ==
    (InChain(ip) /\ ~InChain(ip'))
    => /\ running'
       /\ BuilderOffset(ip') = ChainEnd
       /\ StackSizeOf(sp') = entry.size + 8
       /\ InBranch(IF IfTaken(i) = 0 THEN Len(compiler.branches)
                   ELSE IfTaken(i), ip)

\* C22: for every if / else-if* / else? statement, conditions are evaluated
\* in source order until the first one that is true; exactly the block of
\* that first true condition executes (the else block if none is true, no
\* block if none is true and there is no else); control then continues at
\* the first instruction after the whole chain with SP equal to its value
\* before the statement.
C22_IfChainTakesFirstTrue ==
    [][\A i \in 1..Len(IfScripts) :
          (IfScriptAt(i) /\ running) => (IfOrder(i) /\ IfExit(i))]_vars

\* A chain of three conditions whose third is the first true one has left
\* the block of its third branch: the run is at the first instruction
\* behind the chain.
C22_ThirdBranchTaken ==
    \E i \in 1..Len(IfScripts) :
        /\ IfScriptAt(i)
        /\ running
        /\ IfTaken(i) = 3
        /\ IfHasElse(i)
        /\ BuilderOffset(ip) = ChainEnd
        /\ Len(frames) = 1
        /\ StackSizeOf(sp) = entry.size + 8

\* The allocator of the current frame, and what get_last_temp_register
\* returns from it.
Allocator(k) == get_current_function(k).register_allocator

LastReg(k) == get_last_temp_register(Allocator(k))

\* The step lowered a call of a function with a primitive return type.
LoweredPrimCall ==
    \E expr \in PrimCalls : compiler' = compile_expr(compiler, expr)

\* The step declared a local initialised by such a call: the store that
\* consumes the result is the last instruction.
StoredPrimCall ==
    \E expr \in PrimCalls :
        compiler' = compile_stmt(compiler, VariableDecl(BodyLocal, expr))

LastInstr(k) == k.instructions[Len(k.instructions)]

\* The step stayed in its frame, made no request of the allocator and
\* lowered no such call.
RequestedNone ==
    /\ Len(compiler'.fn_context_stack) = Len(compiler.fn_context_stack)
    /\ Allocator(compiler').register_queue
          = Allocator(compiler).register_queue
    /\ ~LoweredPrimCall
    /\ ~StoredPrimCall

QueueRegs(ra) == {ra.register_queue[i] : i \in DOMAIN ra.register_queue}

Turned(q, n) == SubSeq(q, n + 1, Len(q)) \o SubSeq(q, 1, n)

\* get_temp_register returned the head of the queue and moved it to the
\* back.
HeadMovedToBack ==
    compiler' = get_next_register(compiler) =>
        /\ Allocator(compiler').register_queue
              = Append(Tail(Allocator(compiler).register_queue),
                       Head(Allocator(compiler).register_queue))
        /\ Allocator(compiler').register_queue[14]
              = Head(Allocator(compiler).register_queue)
        /\ Head(Allocator(compiler).register_queue) # 0

\* C24: as stated: the register allocator's queue holds the temporaries R1
\* to R14 and R15 and never R0, SP or IP; each get_temp_register returns the
\* head of the queue and moves it to the back; get_last_temp_register
\* returns the head of the queue.
C24_QueueHoldsR15LastIsHead ==
    [][(AtWork(compiler) /\ AtWork(compiler'))
       => /\ QueueRegs(Allocator(compiler')) = 1..15
          /\ HeadMovedToBack
          /\ Allocator(compiler').forced_temp < 0 =>
                LastReg(compiler')
                = Head(Allocator(compiler').register_queue)
      ]_vars

\* The queue of every frame holds each of R1 to R14 once, and never R0, R15,
\* SP or IP.
QueueHoldsTemporaries(k) ==
    \A i \in DOMAIN k.fn_context_stack :
        /\ Len(k.fn_context_stack[i].register_allocator.register_queue) = 14
        /\ QueueRegs(k.fn_context_stack[i].register_allocator) = 1..14

\* C24: amended: the queue holds R1 to R14 and never R0, R15, SP or IP;
\* get_temp_register returns the head of the queue and moves it to the back,
\* so every step of the compiler in a frame turns the queue, R0 is never
\* handed out and a register is handed out again only after the thirteen
\* others; get_last_temp_register returns the back of the queue, the
\* register handed out last, unless a register is forced, and leaves the
\* queue unchanged.
C24_AllocatorQueue ==
    [][(AtWork(compiler) /\ AtWork(compiler'))
       => /\ QueueHoldsTemporaries(compiler')
          /\ HeadMovedToBack
          /\ compiler' = get_next_register(compiler) =>
                LastReg(compiler') = Head(Allocator(compiler).register_queue)
          /\ Len(compiler'.fn_context_stack)
                = Len(compiler.fn_context_stack) =>
                \E n \in 0..13 :
                    Allocator(compiler').register_queue
                    = Turned(Allocator(compiler).register_queue, n)
          /\ Allocator(compiler').forced_temp < 0 =>
                LastReg(compiler')
                = Allocator(compiler').register_queue[14]
      ]_vars

\* Fifteen temporaries were requested in one frame: R1 was handed out a
\* second time, behind R14, and it is what get_last_temp_register returns.
C24_ReissuedAfterAllOthers ==
    /\ AtWork(compiler)
    /\ Len(compiler.instructions) = 15
    /\ Allocator(compiler).register_queue = Turned([i \in 1..14 |-> i], 1)
    /\ LastInstr(compiler).operands[3] = 1
    /\ compiler.instructions[14].operands[9] = 14
    /\ LastReg(compiler) = 1
    /\ Head(Allocator(compiler).register_queue) = 2

\* The sum script i is loaded.
SumScriptAt(i) ==
    /\ source = ScriptIndex(Len(LogicScripts) + Len(IfScripts) + i)
    /\ program.some

\* The run is about to execute the ADDI of the sum main returns: the one
\* ADDI that stands ahead of the MOVI of the return statement.
AtRootSum ==
    /\ running
    /\ ip < Len(program.code)
    /\ NextInstr.op = "ADDI"
    /\ ~NextInstr.short
    /\ NextInstr.next < Len(program.code)
    /\ Fetch([CoreRec(FALSE) EXCEPT !.ip = NextInstr.next]).op = "MOVI"

\* The register the ADDI names as its left operand holds the value of lhs.
LhsHeld == reg(CoreRec(FALSE), NextInstr.o[1][1]) = LeBytes(LhsValue, 8)

\* C25: in the code emitted for any binary expression lhs + rhs, the
\* register named as the left operand still holds the value computed for
\* lhs when the operator instruction executes, whatever rhs is, including
\* an rhs that requests 14 or more temporaries and an rhs that contains a
\* call to a script function.
C25_LhsRegisterHeld ==
    \A i \in 1..Len(SumScripts) : (SumScriptAt(i) /\ AtRootSum) => LhsHeld

\* What holds of the code: the left operand is held when rhs requests
\* thirteen temporaries or fewer and calls no script function.
LhsHeldBelowWrap ==
    \A i \in 1..2 : (SumScriptAt(i) /\ AtRootSum) => LhsHeld

\* The container script i was handed to load_code.
ContScriptGiven(i) ==
    source = ScriptIndex(Len(LogicScripts) + Len(IfScripts) + Len(SumScripts)
                         + i)

\* The definition of its container, as the compiler keeps it.
ContDefOf(i) == compiler.containers[ContDecls[i].name]

\* The bytes of the value of a literal.
FieldBytes(expr) ==
    CASE expr.e = "IntLiteral" -> LeBytes(expr.v, 8)
      [] expr.e = "BoolLiteral" -> <<BoolByte(expr.v)>>
      [] OTHER -> expr.bits

\* The run is about to pop the locals of main: the instance is on the stack.
AtCleanup ==
    /\ running
    /\ ip < Len(program.code)
    /\ NextInstr.op = "SUBU_I"
    /\ ~NextInstr.short
    /\ NextInstr.o[1][1] = 16

\* The bytes on the stack at get_member_offset of the member, from the base
\* of the instance.
BytesAtOffset(i, m) ==
    SubSeq(stack,
           entry.size
           + get_member_offset(compiler.containers, ContDefOf(i), m) + 1,
           entry.size
           + get_member_offset(compiler.containers, ContDefOf(i), m)
           + Len(FieldBytes(ContInstances[i].members[m])))

InstanceLaidOut(i) ==
    ContScriptGiven(i) =>
        /\ host_res = "Ok"
        /\ AtCleanup =>
              /\ StackSizeOf(sp)
                    = entry.size + get_size(compiler.containers, ContDefOf(i))
              /\ \A m \in DOMAIN ContInstances[i].members :
                    BytesAtOffset(i, m)
                    = FieldBytes(ContInstances[i].members[m])

\* C26: for every container type and every field type, the bytes pushed by
\* a container-instance expression total get_size(container) and each
\* field's value is stored at get_member_offset(field) from the instance's
\* base, so a later member read or member assignment addresses exactly the
\* bytes the instance expression initialised for that field.
C26_InstanceMatchesLayout ==
    \A i \in 1..Len(ContScripts) : InstanceLaidOut(i)

\* What holds of the code: the containers whose fields are declared in the
\* order of their names and are no Bool.
InstanceMatchesSortedLayout == \A i \in 1..2 : InstanceLaidOut(i)

\* An instance of such a container is on the stack.
SortedInstanceOnStack == \E i \in 1..2 : ContScriptGiven(i) /\ AtCleanup

\* The step is a run_fn that starts a run.
RunFnStarts == ~running /\ running' /\ entry'.uid # 0

\* The run run_fn started is at a RET with no native call active: the RET of
\* the function it was asked to run.
AtOwnRet ==
    /\ AtOpcode("RET")
    /\ entry.uid # 0
    /\ frames # <<>>
    /\ ActiveCalls = 0

\* C27: every run_fn starts from an empty call stack: after a run that ended
\* with an error while native calls were active, a later run_fn on the same
\* VM still ends at the RET of the function it was asked to run and never
\* resumes at a return address left over from the aborted run.
C27_RunFnStartsFromEmptyCallStack ==
    [][/\ RunFnStarts => call_stack' = <<>>
       /\ AtOwnRet => (~running' /\ run_res' = "Ok")]_vars

\* The part i compiles on the compiler the engine holds.
PartCompiles(i) == compile_root(compiler, Parts[i]).err = "none"

\* C28: get_program does not consume compiler state: after one successful
\* load_code, a second load_code on the same engine (with or without
\* modules registered in between) succeeds whenever its source compiles,
\* and the program it loads contains a descriptor for every foreign function
\* registered on that engine so far, so every foreign UID the compiler can
\* emit in a CALL resolves at run time.
C28_LoadCodeAgain ==
    [][\A i \in 1..Len(Parts) :
          (LoadPartOf(i) /\ PartCompiles(i))
          => /\ host_res' = "Ok"
             /\ program'.some
             /\ DOMAIN program'.foreign_functions
                   = compiler.foreign_function_uids
             /\ foreign_function_uids' = compiler.foreign_function_uids
      ]_vars

\* What holds of the code: the first load_code of an engine, and each later
\* one that follows a load_code that failed in compile_root.
FirstLoadSucceeds ==
    [][\A i \in 1..Len(Parts) :
          (LoadPartOf(i) /\ PartCompiles(i) /\ ~compiler.taken)
          => /\ host_res' = "Ok"
             /\ program'.some
      ]_vars

\* pop_stack::<t> is called with fewer than size_of(t) bytes on the stack.
PopShort(t) ==
    /\ pop_stack(t)
    /\ ~AddressFrom(sp).panic
    /\ StackSizeOf(sp) < size_of(t)

\* C29: pop_stack::<T> called when fewer than sizeof(T) bytes are on the
\* stack (the real address of SP is below sizeof(T), an empty stack
\* included) returns InvalidStackPointer and leaves SP and the stack
\* contents unchanged; it never reads below stack offset 0.
C29_PopShortIsRefused ==
    [][\A t \in PrimTypes :
          PopShort(t) => /\ host_res' = "InvalidStackPointer"
                         /\ sp' = sp
                         /\ stack' = stack
      ]_vars

\* What holds of the code: the guard compares size_of(T) with the whole
\* word of SP, so it refuses the pop under an SP that carries no tag.
UntaggedPopShortIsRefused ==
    [][\A t \in PrimTypes :
          (PopShort(t) /\ sp = AddressFrom(sp).real_address)
          => /\ host_res' = "InvalidStackPointer"
             /\ sp' = sp
             /\ stack' = stack
      ]_vars

\* compile_stmt of `return;` in the body at work.
ReturnCompiled ==
    /\ AtWork(compiler)
    /\ compiler' = compile_stmt(compiler, ReturnNone)

FrameSizes(k) ==
    {k.fn_context_stack[i].stack_size : i \in DOMAIN k.fn_context_stack}

\* C30: the stack_size counter of a frame never goes below zero: every
\* dec_stack(n) is applied to a frame whose stack_size is at least n, in
\* particular for a return statement compiled inside an if or while block
\* of a function that has already declared locals.
C30_StackSizeNeverBelowZero ==
    [][/\ \A size \in FrameSizes(compiler') : size >= 0
       /\ ReturnCompiled => compiler'.err # "Panic"
      ]_vars

\* What holds of the code: a return compiled in the context of the
\* function itself, and one compiled in a block under a function that
\* holds no local.
ReturnOutsideBlockCounts ==
    [][(/\ ReturnCompiled
        /\ StackThrough(compiler.fn_context_stack, FALSE)
              = current_stack_size(compiler))
       => /\ compiler'.err = "none"
          /\ \A size \in FrameSizes(compiler') : size >= 0
      ]_vars
====
